---- MODULE Spec2Model ----
(***************************************************************************)
(* Model of the Wordle/Lexeme best-first-guess solver (best_guess.c and    *)
(* its two earlier versions): the clue oracle, the constraint compiler,    *)
(* the two possibility filters, the word loader and the guess ranking      *)
(* loops (by filter counts, and by clunique histogram), and the test that  *)
(* compiles several guesses into one constraint buffer.                    *)
(*                                                                         *)
(* Bytes are naturals 0..255.  Positions are 1-based here (C index ii is   *)
(* position ii+1).  A uint32 bit mask is the set of its set bit numbers.   *)
(***************************************************************************)
EXTENDS Integers, Sequences, FiniteSets, TLC

(***************************************************************************)
(* Bounds of the model                                                     *)
(***************************************************************************)
\* words of length 1..MaxLen over the first NPool letters are enumerated
MaxLen == 3
NPool == 2
\* a target file holds at most MaxTargets eligible words, a guess file at
\* most MaxGuesses
MaxTargets == 3
MaxGuesses == 1
\* eligible_words: longest line content enumerated, and lines read per file
MaxLineLen == 3
MaxLines == 2

(***************************************************************************)
(* Program constants                                                       *)
(***************************************************************************)
N_LETTERS == 26
FIRST_LETTER == 65
NON_LETTER == 255
FIRST_OFFSET == 0
NUL == 0
INT_BITS == 32

LETTERS == <<"A","B","C","D","E","F","G","H","I","J","K","L","M",
             "N","O","P","Q","R","S","T","U","V","W","X","Y","Z">>

\* the character code of an upper-case letter
Ord(ch) == FIRST_LETTER + (CHOOSE i \in 1..N_LETTERS : LETTERS[i] = ch) - 1

\* the clue characters
Unknown == Ord("U")
Absent == Ord("A")
WrongPosition == Ord("W")
RightPosition == Ord("R")

\* a string literal of the source, as its bytes (without the terminator)
Str(chars) == [i \in 1..Len(chars) |-> Ord(chars[i])]

\* _chop_word: every byte minus FIRST_LETTER
_chop_word(w) == [i \in 1..Len(w) |-> (w[i] - FIRST_LETTER) % 256]

\* _unchop_word: every byte plus FIRST_LETTER
_unchop_word(len, w) == [i \in 1..len |-> (w[i] + FIRST_LETTER) % 256]

\* faulty variant: the last of the n bytes is not looked at
memchr_short(s, c, n) ==
    IF \E i \in 1..(n-1) : s[i] = c
    THEN CHOOSE i \in 1..(n-1) : s[i] = c /\ \A j \in 1..(i-1) : s[j] # c
    ELSE 0

\* memchr(s, c, n): the first position among the first n bytes of s that
\* holds c, or 0 (NULL)
memchr(s, c, n) ==
    IF \E i \in 1..n : s[i] = c
    THEN CHOOSE i \in 1..n : s[i] = c /\ \A j \in 1..(i-1) : s[j] # c
    ELSE 0

\* a buffer of n bytes the program has not written yet; the content of
\* such a byte is no byte value the program wrote
Unwritten == 255 + 1
FreshBuf(n) == [i \in 1..n |-> Unwritten]

\* faulty variant: cl *= 2 instead of cl *= 3
IntMul2Add(cl, trit) == 2 * cl + trit

\* cl *= 3; cl += trit; on a 32-bit int, computed on 16-bit halves so that the
\* wrap-around of the C int is kept
IntMul3Add(cl, trit) ==
    LET half == 2^(INT_BITS \div 2)
        lo == cl % half
        hi == (cl - lo) \div half
        low3 == 3 * lo + trit
        hi3 == (3 * hi + (low3 \div half)) % half
        shi == IF hi3 >= half \div 2 THEN hi3 - half ELSE hi3
    IN shi * half + (low3 % half)

(***************************************************************************)
(* Clue oracle, best_guess.c                                               *)
(***************************************************************************)
\* faulty variant: a matched leftover letter is not removed from the pool
RECURSIVE clues_loop_noremove(_,_,_,_,_,_)
clues_loop_noremove(len, guess, target, ii, leftovers, clues) ==
    IF ii > len THEN clues
    ELSE LET gl == guess[ii]
             tl == target[ii]
             lo == memchr(leftovers, gl, len)
         IN clues_loop_noremove(len, guess, target, ii+1, leftovers,
                [clues EXCEPT ![ii] = IF gl = tl THEN RightPosition
                                      ELSE IF lo # 0 THEN WrongPosition
                                      ELSE Absent])

RECURSIVE clues_loop(_,_,_,_,_,_)
clues_loop(len, guess, target, ii, leftovers, clues) ==
    IF ii > len THEN clues
    ELSE LET gl == guess[ii]
             tl == target[ii]
             lo == memchr(leftovers, gl, len)
         IN IF gl = tl
            THEN clues_loop(len, guess, target, ii+1, leftovers,
                            [clues EXCEPT ![ii] = RightPosition])
            ELSE IF lo # 0
            THEN clues_loop(len, guess, target, ii+1,
                            [leftovers EXCEPT ![lo] = NON_LETTER],
                            [clues EXCEPT ![ii] = WrongPosition])
            ELSE clues_loop(len, guess, target, ii+1, leftovers,
                            [clues EXCEPT ![ii] = Absent])

\* faulty variant: the letters matched in place stay in the leftover pool
clues_of_guess_nopool(len, guess, target, clues) ==
    LET leftovers == [ii \in 1..len |-> target[ii]]
    IN [clues_loop(len, guess, target, 1, leftovers, clues)
            EXCEPT ![len+1] = NUL]

\* faulty variant: the second loop stops one position early
clues_of_guess_short(len, guess, target, clues) ==
    LET leftovers == [ii \in 1..len |->
                        IF guess[ii] = target[ii] THEN NON_LETTER
                        ELSE target[ii]]
    IN [clues_loop(len - 1, guess, target, 1, leftovers, clues)
            EXCEPT ![len+1] = NUL]

\* clues is the caller's buffer of len+1 bytes; the result is that buffer
clues_of_guess(len, guess, target, clues) ==
    LET leftovers == [ii \in 1..len |->
                        IF guess[ii] = target[ii] THEN NON_LETTER
                        ELSE target[ii]]
    IN [clues_loop(len, guess, target, 1, leftovers, clues)
            EXCEPT ![len+1] = NUL]

(***************************************************************************)
(* Clue oracle, first version (stats_of_guess): compacted leftover pool    *)
(***************************************************************************)
\* faulty variant: a leftover letter is stored at its own position ii, not at
\* the end of the compacted pool
RECURSIVE stats_pass1_sparse(_,_,_,_,_,_)
stats_pass1_sparse(len, guess, target, ii, st, stats) ==
    IF ii > len THEN [st |-> st, stats |-> stats]
    ELSE IF guess[ii] = target[ii]
    THEN stats_pass1_sparse(len, guess, target, ii+1, st,
                            [stats EXCEPT ![ii] = RightPosition])
    ELSE stats_pass1_sparse(len, guess, target, ii+1,
                            [leftovers |-> [st.leftovers EXCEPT ![ii] = target[ii]],
                             nleft |-> st.nleft + 1],
                            [stats EXCEPT ![ii] = Absent])

RECURSIVE stats_pass1(_,_,_,_,_,_)
stats_pass1(len, guess, target, ii, st, stats) ==
    \* st = [leftovers, nleft]
    IF ii > len THEN [st |-> st, stats |-> stats]
    ELSE IF guess[ii] = target[ii]
    THEN stats_pass1(len, guess, target, ii+1, st,
                     [stats EXCEPT ![ii] = RightPosition])
    ELSE stats_pass1(len, guess, target, ii+1,
                     [leftovers |-> [st.leftovers EXCEPT ![st.nleft+1] = target[ii]],
                      nleft |-> st.nleft + 1],
                     [stats EXCEPT ![ii] = Absent])

\* faulty variant: the second pass does not skip the positions already RightPosition
RECURSIVE stats_pass2_norp(_,_,_,_,_,_,_)
stats_pass2_norp(len, guess, target, ii, leftovers, nleft, stats) ==
    IF ii > len THEN stats
    ELSE LET gl == guess[ii]
             lo == memchr(leftovers, gl, nleft)
         IN IF lo # 0
            THEN stats_pass2_norp(len, guess, target, ii+1,
                                  [leftovers EXCEPT ![lo] = NUL], nleft,
                                  [stats EXCEPT ![ii] = WrongPosition])
            ELSE stats_pass2_norp(len, guess, target, ii+1, leftovers, nleft, stats)

RECURSIVE stats_pass2(_,_,_,_,_,_,_)
stats_pass2(len, guess, target, ii, leftovers, nleft, stats) ==
    IF ii > len THEN stats
    ELSE LET gl == guess[ii]
             lo == memchr(leftovers, gl, nleft)
         IN IF gl = target[ii]
            THEN stats_pass2(len, guess, target, ii+1, leftovers, nleft, stats)
            ELSE IF lo # 0
            THEN stats_pass2(len, guess, target, ii+1,
                             [leftovers EXCEPT ![lo] = NUL], nleft,
                             [stats EXCEPT ![ii] = WrongPosition])
            ELSE stats_pass2(len, guess, target, ii+1, leftovers, nleft, stats)

stats_of_guess(len, guess, target, stats) ==
    LET p1 == stats_pass1(len, guess, target, 1,
                          [leftovers |-> [i \in 1..len |-> NUL], nleft |-> 0],
                          stats)
    IN [stats_pass2(len, guess, target, 1, p1.st.leftovers, p1.st.nleft, p1.stats)
            EXCEPT ![len+1] = NUL]

(***************************************************************************)
(* Clue oracle, second version: clue string and clunique                   *)
(***************************************************************************)
RECURSIVE clunique_loop(_,_,_,_,_,_)
clunique_loop(len, guess, target, ii, leftovers, acc) ==
    \* acc = [clues, cl]
    IF ii > len THEN acc
    ELSE LET gl == guess[ii]
             tl == target[ii]
             lo == memchr(leftovers, gl, len)
             trit == IF gl = tl THEN 2 ELSE IF lo # 0 THEN 1 ELSE 0
             c == IF gl = tl THEN RightPosition
                  ELSE IF lo # 0 THEN WrongPosition ELSE Absent
             lo2 == IF gl # tl /\ lo # 0
                    THEN [leftovers EXCEPT ![lo] = NUL] ELSE leftovers
         IN clunique_loop(len, guess, target, ii+1, lo2,
                          [clues |-> [acc.clues EXCEPT ![ii] = c],
                           cl |-> IntMul3Add(acc.cl, trit)])

\* faulty variant: the letters matched in place stay in the leftover pool
clues_of_guess_clunique_nopool(len, guess, target, clues) ==
    LET leftovers == [ii \in 1..len |-> target[ii]]
        r == clunique_loop(len, guess, target, 1, leftovers,
                           [clues |-> clues, cl |-> 0])
    IN [clues |-> [r.clues EXCEPT ![len+1] = NUL], cl |-> r.cl]

\* the result is [clues |-> the caller's buffer, cl |-> *clunique]
clues_of_guess_clunique(len, guess, target, clues) ==
    LET leftovers == [ii \in 1..len |->
                        IF guess[ii] = target[ii] THEN NUL ELSE target[ii]]
        r == clunique_loop(len, guess, target, 1, leftovers,
                           [clues |-> clues, cl |-> 0])
    IN [clues |-> [r.clues EXCEPT ![len+1] = NUL], cl |-> r.cl]

(***************************************************************************)
(* Constraint compiler: STRUCT_CLUEVEC and cluevec_of_guess                *)
(***************************************************************************)
\* faulty variant: lower at_least first
compar_have_ascending(a, b) ==
    IF a.at_least # b.at_least
    THEN a.at_least - b.at_least
    ELSE a.at_most - b.at_most

\* compar_have(a, b) < 0: a sorts before b
compar_have(a, b) ==
    IF a.at_least # b.at_least
    THEN -(a.at_least - b.at_least)
    ELSE a.at_most - b.at_most

\* qsort leaves the order of entries that compare equal unspecified; the
\* model lets them come out in ascending or in descending letter order
TieOrders == {"asc", "desc"}

Before(a, b, tie) ==
    \/ compar_have(a, b) < 0
    \/ /\ compar_have(a, b) = 0
       /\ IF tie = "asc" THEN a.c < b.c ELSE a.c > b.c

\* the sorted sequence s with the entry e put at its place
insert_have(s, e, tie) ==
    LET k == Cardinality({i \in 1..Len(s) : Before(s[i], e, tie)})
    IN SubSeq(s, 1, k) \o <<e>> \o SubSeq(s, k + 1, Len(s))

RECURSIVE sort_have(_,_,_,_)
sort_have(have, ii, sorted, tie) ==
    IF ii > N_LETTERS THEN sorted
    ELSE sort_have(have, ii + 1, insert_have(sorted, have[ii], tie), tie)

\* qsort(cv->have, N_LETTERS, sizeof(cv->have[0]), compar_have)
qsort_have(have, tie) == sort_have(have, 1, <<>>, tie)

\* faulty variant: the loop that initialises have[] is missing
cluevec_init_zero(len) ==
    [must_be |-> [i \in 1..len |-> {}],
     must_not_be |-> [i \in 1..len |-> {}],
     have |-> [l \in 1..N_LETTERS |-> [c |-> 0, at_most |-> 0, at_least |-> 0]]]

\* bzero(cv, sizeof(*cv)) followed by the initialisation of have[]
cluevec_init(len) ==
    [must_be |-> [i \in 1..len |-> {}],
     must_not_be |-> [i \in 1..len |-> {}],
     have |-> [l \in 1..N_LETTERS |->
                 [c |-> (l - 1) + FIRST_OFFSET,
                  at_most |-> len % 256,
                  at_least |-> 0]]]

\* faulty variant: a RightPosition letter is also written to must_not_be[ii]
RECURSIVE cluevec_pass1_both(_,_,_,_,_)
cluevec_pass1_both(len, guess, target, ii, st) ==
    IF ii > len THEN st
    ELSE LET gl == guess[ii]
             tl == target[ii]
             gl_off == gl - FIRST_OFFSET
             h == st.cv.have[gl_off + 1]
         IN IF gl = tl
            THEN cluevec_pass1_both(len, guess, target, ii+1,
                    [cv |-> [st.cv EXCEPT
                               !.must_be[ii] = {gl_off},
                               !.must_not_be[ii] = {gl_off},
                               !.have[gl_off + 1].at_least = (h.at_least + 1) % 256],
                     leftovers |-> st.leftovers])
            ELSE cluevec_pass1_both(len, guess, target, ii+1,
                    [cv |-> [st.cv EXCEPT
                               !.must_not_be[ii] = {gl_off},
                               !.have[gl_off + 1].at_most = (h.at_most - 1) % 256],
                     leftovers |-> [st.leftovers EXCEPT ![ii] = tl]])

\* Pass 1: distinguish RP from WP/A.  st = [cv, leftovers]
RECURSIVE cluevec_pass1(_,_,_,_,_)
cluevec_pass1(len, guess, target, ii, st) ==
    IF ii > len THEN st
    ELSE LET gl == guess[ii]
             tl == target[ii]
             gl_off == gl - FIRST_OFFSET
             h == st.cv.have[gl_off + 1]
         IN IF gl = tl
            THEN cluevec_pass1(len, guess, target, ii+1,
                    [cv |-> [st.cv EXCEPT
                               !.must_be[ii] = {gl_off},
                               !.have[gl_off + 1].at_least = (h.at_least + 1) % 256],
                     leftovers |-> st.leftovers])
            ELSE cluevec_pass1(len, guess, target, ii+1,
                    [cv |-> [st.cv EXCEPT
                               !.must_not_be[ii] = {gl_off},
                               !.have[gl_off + 1].at_most = (h.at_most - 1) % 256],
                     leftovers |-> [st.leftovers EXCEPT ![ii] = tl]])

\* faulty variant: a letter with zero occurrences is not added to must_not_be[*]
ban_nowhere(must_not_be, gl_off, len) == must_not_be

\* faulty variant: the jj loop ends after its first iteration
ban_first(must_not_be, gl_off, len) ==
    [jj \in 1..len |-> IF jj = 1 THEN must_not_be[jj] \cup {gl_off} ELSE must_not_be[jj]]

\* for (jj...) cv->must_not_be[jj] |= gl_bit
ban_everywhere(must_not_be, gl_off, len) ==
    [jj \in 1..len |-> must_not_be[jj] \cup {gl_off}]

\* faulty variant: an Absent clue leaves at_most as pass 1 left it
RECURSIVE cluevec_pass2_keep(_,_,_,_,_)
cluevec_pass2_keep(len, guess, target, ii, st) ==
    IF ii > len THEN st
    ELSE LET gl == guess[ii]
             tl == target[ii]
             gl_off == gl - FIRST_OFFSET
             h == st.cv.have[gl_off + 1]
             lo == memchr(st.leftovers, gl, len)
         IN IF gl = tl
            THEN cluevec_pass2_keep(len, guess, target, ii+1, st)
            ELSE IF lo # 0
            THEN cluevec_pass2_keep(len, guess, target, ii+1,
                    [cv |-> [st.cv EXCEPT
                               !.have[gl_off + 1].at_least = (h.at_least + 1) % 256],
                     leftovers |-> [st.leftovers EXCEPT ![lo] = NON_LETTER]])
            ELSE cluevec_pass2_keep(len, guess, target, ii+1,
                    [cv |-> [st.cv EXCEPT
                               !.must_not_be =
                                   IF h.at_least = 0
                                   THEN ban_everywhere(st.cv.must_not_be, gl_off, len)
                                   ELSE st.cv.must_not_be],
                     leftovers |-> st.leftovers])

\* faulty variant: an Absent clue bans the letter at every position whatever
\* its at_least
RECURSIVE cluevec_pass2_banall(_,_,_,_,_)
cluevec_pass2_banall(len, guess, target, ii, st) ==
    IF ii > len THEN st
    ELSE LET gl == guess[ii]
             tl == target[ii]
             gl_off == gl - FIRST_OFFSET
             h == st.cv.have[gl_off + 1]
             lo == memchr(st.leftovers, gl, len)
         IN IF gl = tl
            THEN cluevec_pass2_banall(len, guess, target, ii+1, st)
            ELSE IF lo # 0
            THEN cluevec_pass2_banall(len, guess, target, ii+1,
                    [cv |-> [st.cv EXCEPT
                               !.have[gl_off + 1].at_least = (h.at_least + 1) % 256],
                     leftovers |-> [st.leftovers EXCEPT ![lo] = NON_LETTER]])
            ELSE cluevec_pass2_banall(len, guess, target, ii+1,
                    [cv |-> [st.cv EXCEPT
                               !.have[gl_off + 1].at_most = h.at_least,
                               !.must_not_be =
                                   ban_everywhere(st.cv.must_not_be, gl_off, len)],
                     leftovers |-> st.leftovers])

\* Pass 2: distinguish WP from A
RECURSIVE cluevec_pass2(_,_,_,_,_)
cluevec_pass2(len, guess, target, ii, st) ==
    IF ii > len THEN st
    ELSE LET gl == guess[ii]
             tl == target[ii]
             gl_off == gl - FIRST_OFFSET
             h == st.cv.have[gl_off + 1]
             lo == memchr(st.leftovers, gl, len)
         IN IF gl = tl
            THEN cluevec_pass2(len, guess, target, ii+1, st)
            ELSE IF lo # 0
            THEN cluevec_pass2(len, guess, target, ii+1,
                    [cv |-> [st.cv EXCEPT
                               !.have[gl_off + 1].at_least = (h.at_least + 1) % 256],
                     leftovers |-> [st.leftovers EXCEPT ![lo] = NON_LETTER]])
            ELSE cluevec_pass2(len, guess, target, ii+1,
                    [cv |-> [st.cv EXCEPT
                               !.have[gl_off + 1].at_most = h.at_least,
                               !.must_not_be =
                                   IF h.at_least = 0
                                   THEN ban_everywhere(st.cv.must_not_be, gl_off, len)
                                   ELSE st.cv.must_not_be],
                     leftovers |-> st.leftovers])

\* an entry the sort-and-discard loop stops at
Uninformative(h, len) ==
    \/ h.at_most = 0
    \/ h.at_least = 0 /\ h.at_most = len

\* faulty variant: the sentinel is put on the first entry whatever it holds
place_sentinel_first(have, len) ==
    [have EXCEPT ![1].c = NON_LETTER]

\* the loop after qsort: the first uninformative entry becomes the sentinel
place_sentinel(have, len) ==
    IF \E i \in 1..N_LETTERS : Uninformative(have[i], len)
    THEN LET s == CHOOSE i \in 1..N_LETTERS :
                    /\ Uninformative(have[i], len)
                    /\ \A j \in 1..(i-1) : ~Uninformative(have[j], len)
         IN [have EXCEPT ![s].c = NON_LETTER]
    ELSE have

\* the contents of *cluevec after the call
cluevec_of_guess(len, guess, target, tie) ==
    LET p1 == cluevec_pass1(len, guess, target, 1,
                            [cv |-> cluevec_init(len),
                             leftovers |-> [i \in 1..len |-> NON_LETTER]])
        p2 == cluevec_pass2(len, guess, target, 1, p1)
    IN [p2.cv EXCEPT !.have = place_sentinel(qsort_have(p2.cv.have, tie), len)]

\* sizeof(STRUCT_CLUEVEC(len, N_LETTERS)): two arrays of uint32_t, N_LETTERS
\* entries of three bytes, rounded up to the alignment of uint32_t
sizeof_cluevec(len) == ((4 * len + 4 * len + 3 * N_LETTERS + 3) \div 4) * 4

\* byte k of the (little-endian) uint32_t whose set bits are the numbers in S
byte_of_bits(S, k) ==
    LET bit(b) == IF (8 * k + b) \in S THEN 2^b ELSE 0
    IN bit(0) + bit(1) + bit(2) + bit(3) + bit(4) + bit(5) + bit(6) + bit(7)

\* the set bits of the uint32_t at offset off of the memory mem
bits_of_bytes(mem, off) ==
    {n \in 0..31 : (mem[off + (n \div 8) + 1] \div 2^(n % 8)) % 2 = 1}

\* the memory mem read as a STRUCT_CLUEVEC(len, N_LETTERS)
load_cluevec(mem, len) ==
    [must_be |-> [i \in 1..len |-> bits_of_bytes(mem, 4 * (i - 1))],
     must_not_be |-> [i \in 1..len |-> bits_of_bytes(mem, 4 * len + 4 * (i - 1))],
     have |-> [l \in 1..N_LETTERS |->
                 [c |-> mem[8 * len + 3 * (l - 1) + 1],
                  at_most |-> mem[8 * len + 3 * (l - 1) + 2],
                  at_least |-> mem[8 * len + 3 * (l - 1) + 3]]]]

\* the memory mem after the fields of a STRUCT_CLUEVEC(len, N_LETTERS) at its
\* start are written with cv; the padding and the bytes behind it are kept
store_cluevec(mem, len, cv) ==
    [o \in 1..Len(mem) |->
        LET off == o - 1
            h == off - 8 * len
        IN IF off < 4 * len
           THEN byte_of_bits(cv.must_be[(off \div 4) + 1], off % 4)
           ELSE IF off < 8 * len
           THEN byte_of_bits(cv.must_not_be[((off - 4 * len) \div 4) + 1], off % 4)
           ELSE IF h < 3 * N_LETTERS
           THEN IF h % 3 = 0 THEN cv.have[(h \div 3) + 1].c
                ELSE IF h % 3 = 1 THEN cv.have[(h \div 3) + 1].at_most
                ELSE cv.have[(h \div 3) + 1].at_least
           ELSE mem[o]]

\* faulty variant: nothing is cleared
bzero_off(mem, n) == mem

\* bzero(cv, sizeof(*cv))
bzero(mem, n) == [o \in 1..Len(mem) |-> IF o <= n THEN 0 ELSE mem[o]]

\* the loop that sets c and at_most of every entry of have[]
have_init(cv, len) ==
    [cv EXCEPT !.have = [l \in 1..N_LETTERS |->
                           [c |-> (l - 1) + FIRST_OFFSET,
                            at_most |-> len % 256,
                            at_least |-> cv.have[l].at_least]]]

\* cluevec_of_guess on the caller's buffer: the memory behind cluevec after
\* the call, given the memory mem before it
cluevec_of_guess_in(mem, len, guess, target, tie) ==
    LET zeroed == bzero(mem, sizeof_cluevec(len))
        p1 == cluevec_pass1(len, guess, target, 1,
                            [cv |-> have_init(load_cluevec(zeroed, len), len),
                             leftovers |-> [i \in 1..len |-> NON_LETTER]])
        p2 == cluevec_pass2(len, guess, target, 1, p1)
    IN store_cluevec(zeroed, len,
           [p2.cv EXCEPT !.have = place_sentinel(qsort_have(p2.cv.have, tie), len)])

(***************************************************************************)
(* Possibility filters                                                     *)
(***************************************************************************)
\* faulty variant: the test for RightPosition on differing letters is missing
raw_position_reject_eq(guess, word, clues, ii) ==
    guess[ii] = word[ii] /\ clues[ii] # RightPosition

\* the first loop of is_word_possible_after_guess rejects at position ii
raw_position_reject(guess, word, clues, ii) ==
    \/ guess[ii] = word[ii] /\ clues[ii] # RightPosition
    \/ guess[ii] # word[ii] /\ clues[ii] = RightPosition

\* the first loop of is_word_possible_after_guess from position ii on, with the
\* counters cnt = [left_word, wp_guess, a_guess] of the positions before it;
\* possible is 0 when the loop returns 0
RECURSIVE raw_count_loop(_,_,_,_,_,_)
raw_count_loop(len, guess, word, clues, ii, cnt) ==
    IF ii > len THEN [possible |-> 1, cnt |-> cnt]
    ELSE IF raw_position_reject(guess, word, clues, ii)
    THEN [possible |-> 0, cnt |-> cnt]
    ELSE LET gl == guess[ii] - FIRST_OFFSET
             wl == word[ii] - FIRST_OFFSET
             s == clues[ii]
             left_word == IF s # RightPosition
                          THEN [cnt.left_word EXCEPT ![wl] = @ + 1]
                          ELSE cnt.left_word
             wp_guess == IF s = WrongPosition
                         THEN [cnt.wp_guess EXCEPT ![gl] = @ + 1]
                         ELSE cnt.wp_guess
             a_guess == IF s # WrongPosition /\ s = Absent
                        THEN [cnt.a_guess EXCEPT ![gl] = @ + 1]
                        ELSE cnt.a_guess
         IN raw_count_loop(len, guess, word, clues, ii + 1,
                           [left_word |-> left_word, wp_guess |-> wp_guess,
                            a_guess |-> a_guess])

\* faulty variant: the test on the letters with an Absent clue is missing
RECURSIVE raw_letter_loop_noabsent(_,_)
raw_letter_loop_noabsent(cnt, ii) ==
    IF ii >= N_LETTERS THEN 1
    ELSE IF cnt.left_word[ii] < cnt.wp_guess[ii] THEN 0
    ELSE raw_letter_loop_noabsent(cnt, ii + 1)

\* the second loop of is_word_possible_after_guess, from letter ii on
RECURSIVE raw_letter_loop(_,_)
raw_letter_loop(cnt, ii) ==
    IF ii >= N_LETTERS THEN 1
    ELSE IF cnt.left_word[ii] < cnt.wp_guess[ii] THEN 0
    ELSE IF cnt.a_guess[ii] # 0 /\ cnt.left_word[ii] > cnt.wp_guess[ii] THEN 0
    ELSE raw_letter_loop(cnt, ii + 1)

is_word_possible_after_guess(len, guess, word, clues) ==
    LET zero == [l \in 0..(N_LETTERS-1) |-> 0]
        first == raw_count_loop(len, guess, word, clues, 1,
                                [left_word |-> zero, wp_guess |-> zero, a_guess |-> zero])
    IN IF first.possible = 0 THEN 0 ELSE raw_letter_loop(first.cnt, 0)

\* the second loop of is_word_possible_after_cluevec, from entry ii on
RECURSIVE have_loop(_,_,_)
have_loop(have, count, ii) ==
    IF ii > N_LETTERS THEN 1
    ELSE LET h == have[ii]
         IN IF h.c = NON_LETTER THEN 1
            ELSE IF count[h.c - FIRST_OFFSET] < h.at_least THEN 0
            ELSE IF count[h.c - FIRST_OFFSET] > h.at_most THEN 0
            ELSE have_loop(have, count, ii + 1)

\* faulty variant: the must_be test misses the complement (must_be & wl_bit)
is_word_possible_after_cluevec_noneg(len, word, cv) ==
    LET count == [l \in 0..(N_LETTERS-1) |->
            Cardinality({ii \in 1..len : word[ii] - FIRST_OFFSET = l})]
    IN IF \E ii \in 1..len :
            \/ (word[ii] - FIRST_OFFSET) \in cv.must_be[ii]
            \/ (word[ii] - FIRST_OFFSET) \in cv.must_not_be[ii]
       THEN 0
       ELSE have_loop(cv.have, count, 1)

is_word_possible_after_cluevec(len, word, cv) ==
    LET count == [l \in 0..(N_LETTERS-1) |->
            Cardinality({ii \in 1..len : word[ii] - FIRST_OFFSET = l})]
    IN IF \E ii \in 1..len :
            \/ cv.must_be[ii] \ {word[ii] - FIRST_OFFSET} # {}
            \/ (word[ii] - FIRST_OFFSET) \in cv.must_not_be[ii]
       THEN 0
       ELSE have_loop(cv.have, count, 1)

(***************************************************************************)
(* Inputs                                                                  *)
(***************************************************************************)
\* the words of the source's own tests (test_guess_clues,
\* test_word_possible_after_guess, test_word_possible_after_cluevec)
TestWords5 ==
    {Str(<<"A","A","H","E","D">>), Str(<<"A","B","E","A","M">>),
     Str(<<"A","B","A","S","E">>), Str(<<"A","A","E","H","D">>),
     Str(<<"N","O","R","A","D">>), Str(<<"B","E","R","E","T">>),
     Str(<<"A","C","R","E","S">>)}
TestWords6 ==
    {Str(<<"V","X","X","X","X","X">>), Str(<<"A","D","D","U","C","E">>),
     Str(<<"D","E","D","U","C","E">>), Str(<<"A","D","V","I","C","E">>),
     Str(<<"E","V","E","N","E","R">>), Str(<<"D","E","V","I","L","S">>)}

PoolLetters == FIRST_LETTER .. (FIRST_LETTER + NPool - 1)
PoolWords(n) == [1..n -> PoolLetters]

\* the words the inputs of one run are drawn from: the enumerated words of
\* one length, or the test words of one length
WordLists == {"pool", "tests"}
WordSet(list, n) ==
    IF list = "pool" THEN PoolWords(n)
    ELSE IF n = 5 THEN TestWords5 ELSE TestWords6
Lengths(list) == IF list = "pool" THEN 1..MaxLen ELSE {5, 6}

(***************************************************************************)
(* State                                                                   *)
(***************************************************************************)
VARIABLES
    pc,          \* the call the harness makes next
    list,        \* the word list of this run (see WordSet)
    len,         \* the word length of this run
    guess,       \* the guess, as text
    target,      \* the target, as text
    word,        \* the candidate word, as text
    clues,       \* clue buffer written by clues_of_guess
    stats,       \* clue buffer written by stats_of_guess (first version)
    clues1,      \* clue buffer written by clues_of_guess (second version)
    clunique,    \* *clunique written by clues_of_guess (second version)
    cluevec,     \* the constraint buffer written by cluevec_of_guess
    ok_guess,    \* result of is_word_possible_after_guess
    ok_cluevec,  \* result of is_word_possible_after_cluevec
    \* main() of best_guess.c
    mpc,         \* where main is
    extra_guesses, \* argc == 4: a separate guess list was given
    targetlen,   \* the word length of the run
    targetfile,  \* the eligible words of the target file, in file order
    guessfile,   \* the eligible words of the guess file, in file order
    targets,     \* the eligible words of the target file, chopped
    guesses,     \* the eligible words of the guess list, chopped
    ntw,         \* number of target words
    ngw,         \* number of guess words
    ii,          \* index of the guess being tried (0-based, as in the code)
    jj,          \* index of the target being tried (0-based)
    acc,         \* sum of the counts of the targets tried so far
    worst_left,  \* largest count so far
    mcluevec,    \* the cluevec of the current jj iteration
    out,         \* the lines written to stdout so far
    \* main() of the histogram version (part_001)
    hpc,         \* where main is
    htargets,    \* the eligible words of the target file
    hguesses,    \* the eligible words of the guess list
    hntw,        \* number of target words
    hngw,        \* number of guess words
    n_cluniques, \* ipow(3, targetlen)
    cluniques,   \* the histogram of the current guess, indexed from 0
    hii,         \* index of the guess being tried (0-based)
    hjj,         \* index of the target being tried (0-based)
    hout,        \* the lines written to stdout so far
    \* eligible_words()
    epc,         \* where eligible_words is
    elen,        \* its len argument
    line,        \* the C string held by line[]
    before,      \* the bytes in memory below line[]: before[k] is line[-k]
    buf,         \* buf[0..n-1], the words stored so far
    nwords,      \* n
    nlines,      \* the number of lines fgets has returned
    eof,         \* the last line returned had no newline: the file is at its end
    \* test_word_possible_after_cluevec(): one buffer, many compiles
    rpc,         \* the call the test makes next
    cvmem,       \* the bytes of the buffer cluevec points to
    rlen,        \* the len argument of the last compile
    rguess,      \* its guess
    rtarget,     \* its target
    rword,       \* the word of the last filter call
    rok,         \* the verdict of the last filter call
    ncompiles    \* the number of compiles made so far

tvars == <<pc, list, len, guess, target, word, clues, stats, clues1,
           clunique, cluevec, ok_guess, ok_cluevec>>
mvars == <<mpc, extra_guesses, targetlen, targetfile, guessfile, targets, guesses, ntw, ngw,
           ii, jj, acc, worst_left, mcluevec, out>>
hvars == <<hpc, htargets, hguesses, hntw, hngw, n_cluniques, cluniques, hii, hjj, hout>>
evars == <<epc, elen, line, before, buf, nwords, nlines, eof>>
rvars == <<rpc, cvmem, rlen, rguess, rtarget, rword, rok, ncompiles>>
vars == <<tvars, mvars, hvars, evars, rvars>>

None == "none"

\* main is not running
MainIdle ==
    /\ mpc = "idle"
    /\ extra_guesses = FALSE
    /\ targetlen = 0
    /\ targetfile = <<>>
    /\ guessfile = <<>>
    /\ targets = <<>>
    /\ guesses = <<>>
    /\ ntw = 0
    /\ ngw = 0
    /\ ii = 0
    /\ jj = 0
    /\ acc = 0
    /\ worst_left = 0
    /\ mcluevec = None
    /\ out = <<>>

\* the histogram version is not running
HistIdle ==
    /\ hpc = "idle"
    /\ htargets = <<>>
    /\ hguesses = <<>>
    /\ hntw = 0
    /\ hngw = 0
    /\ n_cluniques = 0
    /\ cluniques = None
    /\ hii = 0
    /\ hjj = 0
    /\ hout = <<>>

\* eligible_words is not running
LoadIdle ==
    /\ epc = "idle"
    /\ elen = 0
    /\ line = <<>>
    /\ before = <<>>
    /\ buf = <<>>
    /\ nwords = 0
    /\ nlines = 0
    /\ eof = FALSE

\* the buffer-reuse test is not running
ReuseIdle ==
    /\ rpc = "idle"
    /\ cvmem = <<>>
    /\ rlen = 0
    /\ rguess = None
    /\ rtarget = None
    /\ rword = None
    /\ rok = None
    /\ ncompiles = 0

Init ==
    /\ MainIdle
    /\ HistIdle
    /\ LoadIdle
    /\ ReuseIdle
    /\ pc = "clues"
    /\ list \in WordLists
    /\ len \in Lengths(list)
    /\ guess \in WordSet(list, len)
    /\ target \in WordSet(list, len)
    /\ word = None
    /\ clues = FreshBuf(len + 1)
    /\ stats = FreshBuf(len + 1)
    /\ clues1 = FreshBuf(len + 1)
    /\ clunique = None
    /\ cluevec = None
    /\ ok_guess = None
    /\ ok_cluevec = None

\* clues_of_guess(len, CHOP1(guess), CHOP2(target), clues)
CluesOfGuess ==
    /\ pc = "clues"
    /\ clues' = clues_of_guess(len, _chop_word(guess), _chop_word(target), clues)
    /\ pc' = "stats"
    /\ UNCHANGED <<list, len, guess, target, word, stats, clues1, clunique,
                   cluevec, ok_guess, ok_cluevec, mvars, hvars, evars, rvars>>

\* stats_of_guess(len, guess, target, stats)
StatsOfGuess ==
    /\ pc = "stats"
    /\ stats' = stats_of_guess(len, guess, target, stats)
    /\ pc' = "clunique"
    /\ UNCHANGED <<list, len, guess, target, word, clues, clues1, clunique,
                   cluevec, ok_guess, ok_cluevec, mvars, hvars, evars, rvars>>

\* clues_of_guess(len, guess, target, clues, &clunique)
CluesOfGuessClunique ==
    /\ pc = "clunique"
    /\ LET r == clues_of_guess_clunique(len, guess, target, clues1)
       IN /\ clues1' = r.clues
          /\ clunique' = r.cl
    /\ pc' = "cluevec"
    /\ UNCHANGED <<list, len, guess, target, word, clues, stats,
                   cluevec, ok_guess, ok_cluevec, mvars, hvars, evars, rvars>>

\* cluevec_of_guess(len, CHOP1(guess), CHOP2(target), cluevec)
CluevecOfGuess ==
    /\ pc = "cluevec"
    /\ \E tie \in TieOrders :
          cluevec' = cluevec_of_guess(len, _chop_word(guess), _chop_word(target), tie)
    /\ pc' = "filter_guess"
    /\ UNCHANGED <<list, len, guess, target, word, clues, stats, clues1,
                   clunique, ok_guess, ok_cluevec, mvars, hvars, evars, rvars>>

\* is_word_possible_after_guess(len, CHOP1(guess), CHOP2(word), clues)
PossibleAfterGuess ==
    /\ pc = "filter_guess"
    /\ \E w \in WordSet(list, len) :
          /\ word' = w
          /\ ok_guess' = is_word_possible_after_guess(
                             len, _chop_word(guess), _chop_word(w), clues)
    /\ pc' = "filter_cluevec"
    /\ UNCHANGED <<list, len, guess, target, clues, stats, clues1,
                   clunique, cluevec, ok_cluevec, mvars, hvars, evars, rvars>>

\* is_word_possible_after_cluevec(len, CHOP1(word), cluevec)
PossibleAfterCluevec ==
    /\ pc = "filter_cluevec"
    /\ ok_cluevec' = is_word_possible_after_cluevec(len, _chop_word(word), cluevec)
    /\ pc' = "done"
    /\ UNCHANGED <<list, len, guess, target, word, clues, stats, clues1,
                   clunique, cluevec, ok_guess, mvars, hvars, evars, rvars>>

(***************************************************************************)
(* main() of best_guess.c: loading and the ranking loop                    *)
(***************************************************************************)
\* the tests are not running
TestsIdle ==
    /\ pc = "idle"
    /\ list = None
    /\ len = 0
    /\ guess = None
    /\ target = None
    /\ word = None
    /\ clues = <<>>
    /\ stats = <<>>
    /\ clues1 = <<>>
    /\ clunique = None
    /\ cluevec = None
    /\ ok_guess = None
    /\ ok_cluevec = None

\* the dictionary the files of a run are made of
RankWords ==
    {Str(<<"V","X","X","X","X","X">>), Str(<<"A","D","D","U","C","E">>),
     Str(<<"D","E","D","U","C","E">>), Str(<<"A","D","V","I","C","E">>)}
RankLen == Len(CHOOSE w \in RankWords : TRUE)

RECURSIVE SeqsUpTo(_,_)
SeqsUpTo(S, n) ==
    IF n = 0 THEN {<<>>}
    ELSE LET shorter == SeqsUpTo(S, n - 1)
         IN shorter \cup {Append(q, x) : q \in {r \in shorter : Len(r) = n - 1}, x \in S}

MainInit ==
    /\ TestsIdle
    /\ HistIdle
    /\ LoadIdle
    /\ ReuseIdle
    /\ mpc = "load_targets"
    /\ extra_guesses \in BOOLEAN
    /\ targetlen = RankLen
    /\ targetfile \in SeqsUpTo(RankWords, MaxTargets)
    /\ guessfile \in IF extra_guesses THEN SeqsUpTo(RankWords, MaxGuesses)
                     ELSE {<<>>}
    /\ targets = <<>>
    /\ guesses = <<>>
    /\ ntw = 0
    /\ ngw = 0
    /\ ii = 0
    /\ jj = 0
    /\ acc = 0
    /\ worst_left = 0
    /\ mcluevec = None
    /\ out = <<>>

\* the words eligible_words returns for a file: each one chopped
loaded(file) == [i \in 1..Len(file) |-> _chop_word(file[i])]

\* faulty variant: the assertion is compiled out
assert_off(n, continue) == continue

\* assert(n): main goes on only when n is not zero
assert(n, continue) == IF n = 0 THEN "aborted" ELSE continue

\* ntw = eligible_words(f, targetlen, &targets); assert(ntw);
\* without a guess list: guesses = targets; ngw = ntw
LoadTargets ==
    /\ mpc = "load_targets"
    /\ targets' = loaded(targetfile)
    /\ ntw' = Len(targetfile)
    /\ mpc' = assert(ntw', IF extra_guesses THEN "load_guesses" ELSE "header")
    /\ IF mpc' = "header"
       THEN /\ guesses' = targets'
            /\ ngw' = ntw'
       ELSE UNCHANGED <<guesses, ngw>>
    /\ UNCHANGED <<extra_guesses, targetlen, targetfile, guessfile,
                   ii, jj, acc, worst_left, out, mcluevec, tvars, hvars, evars, rvars>>

\* ngw = eligible_words(f, targetlen, &guesses); assert(ngw)
LoadGuesses ==
    /\ mpc = "load_guesses"
    /\ guesses' = loaded(guessfile)
    /\ ngw' = Len(guessfile)
    /\ mpc' = assert(ngw', "header")
    /\ UNCHANGED <<extra_guesses, targetlen, targetfile, guessfile, targets,
                   ntw, ii, jj, acc, worst_left, out, mcluevec, tvars, hvars, evars, rvars>>

Header == [kind |-> "header",
           text |-> "guess,avg_targets_left_after_guess,max_targets_left_after_guess"]

\* printf of the header line; the guess loop starts at ii = 0
PrintHeader ==
    /\ mpc = "header"
    /\ out' = Append(out, Header)
    /\ ii' = 0
    /\ mpc' = "guess"
    /\ UNCHANGED <<extra_guesses, targetlen, targetfile, guessfile, targets,
                   guesses, ntw, ngw, jj, acc, worst_left, mcluevec, tvars, hvars, evars, rvars>>

\* faulty variant: the accumulators are declared outside the guess loop
stale_accumulators == [acc |-> acc, worst_left |-> worst_left]

\* int acc = 0, worst_left = 0; at the top of the body of the guess loop
new_accumulators == [acc |-> 0, worst_left |-> 0]

\* for (ii...) { guess = guesses[ii]; acc = 0, worst_left = 0; for (jj = 0 ...
NextGuess ==
    /\ mpc = "guess"
    /\ ii < ngw
    /\ acc' = new_accumulators.acc
    /\ worst_left' = new_accumulators.worst_left
    /\ jj' = 0
    /\ mpc' = "target"
    /\ UNCHANGED <<extra_guesses, targetlen, targetfile, guessfile, targets,
                   guesses, ntw, ngw, ii, out, mcluevec, tvars, hvars, evars, rvars>>

\* faulty variant: the kk loop stops one target early
RECURSIVE count_possible_short(_,_,_,_,_)
count_possible_short(tlen, tgts, n, cv, kk) ==
    IF kk >= n - 1 THEN 0
    ELSE is_word_possible_after_cluevec(tlen, tgts[kk + 1], cv)
         + count_possible_short(tlen, tgts, n, cv, kk + 1)

\* the kk loop: count += is_word_possible_after_cluevec(targetlen, targets[kk], &cluevec)
RECURSIVE count_possible(_,_,_,_,_)
count_possible(tlen, tgts, n, cv, kk) ==
    IF kk >= n THEN 0
    ELSE is_word_possible_after_cluevec(tlen, tgts[kk + 1], cv)
         + count_possible(tlen, tgts, n, cv, kk + 1)

\* faulty variant: the comparison is the wrong way round
worst_update_min(count, worst) == IF count < worst THEN count ELSE worst

\* if (count > worst_left) worst_left = count;
worst_update(count, worst) == IF count > worst THEN count ELSE worst

\* the jj loop of one guess, from target j on: the cluevec of (guess, target j),
\* its count over all targets, acc += count, worst_left
RECURSIVE ranking_loop(_,_,_,_,_,_,_,_)
ranking_loop(tlen, g, tgts, n, j, a, worst, tie) ==
    IF j >= n THEN [acc |-> a, worst_left |-> worst]
    ELSE LET count == count_possible(tlen, tgts, n,
                                     cluevec_of_guess(tlen, g, tgts[j + 1], tie), 0)
         IN ranking_loop(tlen, g, tgts, n, j + 1, a + count,
                         worst_update(count, worst), tie)

\* the jj loop is entered for target jj:
\* cluevec_of_guess(targetlen, guess, target, &cluevec)
CompileTarget ==
    /\ mpc = "target"
    /\ jj < ntw
    /\ \E tie \in TieOrders :
         mcluevec' = cluevec_of_guess(targetlen, guesses[ii + 1], targets[jj + 1], tie)
    /\ mpc' = "count"
    /\ UNCHANGED <<extra_guesses, targetlen, targetfile, guessfile, targets,
                   guesses, ntw, ngw, ii, jj, acc, worst_left, out, tvars, hvars, evars, rvars>>

\* the rest of the iteration: the kk loop, acc += count, worst_left, jj++;
\* the cluevec of the iteration goes out of scope
CountTargets ==
    /\ mpc = "count"
    /\ LET count == count_possible(targetlen, targets, ntw, mcluevec, 0)
       IN /\ acc' = acc + count
          /\ worst_left' = worst_update(count, worst_left)
    /\ jj' = jj + 1
    /\ mcluevec' = None
    /\ mpc' = "target"
    /\ UNCHANGED <<extra_guesses, targetlen, targetfile, guessfile, targets,
                   guesses, ntw, ngw, ii, out, tvars, hvars, evars, rvars>>

\* avg_left = ((double)acc) / ((double)ntw), kept as the exact ratio
avg_left_of(a, n) == [num |-> a, den |-> n]

\* printf("\"%s\",%g,%d\n", WORD1(targetlen, guess), avg_left, worst_left)
EmitRecord ==
    /\ mpc = "target"
    /\ jj >= ntw
    /\ out' = Append(out, [kind |-> "record",
                           guess |-> _unchop_word(targetlen, guesses[ii + 1]),
                           avg_left |-> avg_left_of(acc, ntw),
                           worst_left |-> worst_left])
    /\ ii' = ii + 1
    /\ mpc' = "guess"
    /\ UNCHANGED <<extra_guesses, targetlen, targetfile, guessfile, targets,
                   guesses, ntw, ngw, jj, acc, worst_left, mcluevec, tvars, hvars, evars, rvars>>

\* the guess loop is over: return 0
Finish ==
    /\ mpc = "guess"
    /\ ii >= ngw
    /\ mpc' = "done"
    /\ UNCHANGED <<extra_guesses, targetlen, targetfile, guessfile, targets,
                   guesses, ntw, ngw, ii, jj, acc, worst_left, out, mcluevec, tvars, hvars, evars, rvars>>

MainNext ==
    \/ LoadTargets
    \/ LoadGuesses
    \/ PrintHeader
    \/ NextGuess
    \/ CompileTarget
    \/ CountTargets
    \/ EmitRecord
    \/ Finish

SpecMain == MainInit /\ [][MainNext]_vars

\* the word lists made of the three words of the tests that share letters
RecordWords == RankWords \ {Str(<<"V","X","X","X","X","X">>)}

RecordsInit ==
    /\ MainInit
    /\ \A f \in {targetfile, guessfile} : \A i \in 1..Len(f) : f[i] \in RecordWords

SpecRecords == RecordsInit /\ [][MainNext]_vars

(***************************************************************************)
(* main() of the histogram version (part_001)                              *)
(***************************************************************************)
\* faulty variant: base += base instead of base *= base
RECURSIVE ipow_loop_double(_,_,_)
ipow_loop_double(base, exp, result) ==
    LET r == IF exp % 2 = 1 THEN result * base ELSE result
        e == exp \div 2
    IN IF e = 0 THEN r ELSE ipow_loop_double(base + base, e, r)

\* int ipow(int base, int exp), from the iteration with these values on
RECURSIVE ipow_loop(_,_,_)
ipow_loop(base, exp, result) ==
    LET r == IF exp % 2 = 1 THEN result * base ELSE result
        e == exp \div 2
    IN IF e = 0 THEN r ELSE ipow_loop(base * base, e, r)

ipow(base, exp) == ipow_loop(base, exp, 1)

\* faulty variant: ascending order
comp_int(a, b) == a - b

\* comp_int_rev: negative when a is to come before b
comp_int_rev(a, b) == b - a

\* the elements of a[0..n-1] with a value in vals, in the order of comp_int_rev:
\* the value that comp_int_rev puts behind no other comes first, as often as
\* it occurs
RECURSIVE sorted_run(_,_,_)
sorted_run(a, n, vals) ==
    IF vals = {} THEN <<>>
    ELSE LET v == CHOOSE x \in vals : \A y \in vals : comp_int_rev(x, y) <= 0
             k == Cardinality({i \in 0..(n - 1) : a[i] = v})
         IN [i \in 1..k |-> v] \o sorted_run(a, n, vals \ {v})

\* qsort(a, n, sizeof(int), comp_int_rev) on a[0..n-1]
qsort_int_rev(a, n) ==
    LET s == sorted_run(a, n, {a[i] : i \in 0..(n - 1)})
    IN [i \in 0..(n - 1) |-> s[i + 1]]

\* bzero(cluniques, sizeof(int) * n_cluniques)
bzero_cluniques(n) == [k \in 0..(n - 1) |-> 0]

\* faulty variant: the bucket is counted twice
incr_bucket_twice(hist, cl) == [hist EXCEPT ![cl] = @ + 2]

\* cluniques[clunique]++
incr_bucket(hist, cl) == [hist EXCEPT ![cl] = @ + 1]

\* the jj loop of one guess, from target j on: the classification of
\* (guess, target j) is counted in its bucket
RECURSIVE histogram_loop(_,_,_,_,_,_)
histogram_loop(tlen, g, tgts, n, j, hist) ==
    IF j >= n THEN hist
    ELSE histogram_loop(tlen, g, tgts, n, j + 1,
             incr_bucket(hist, clues_of_guess_clunique(tlen, g, tgts[j + 1],
                                                       FreshBuf(tlen + 1)).cl))

\* the number of one-letter targets of a run: more than the 3 buckets of
\* the histogram for one letter
MaxShortTargets == 4

\* a dictionary of words of one letter
ShortWords == {Str(<<"A">>), Str(<<"B">>)}

\* the arguments and the files of a run on the word lists made of the words
\* of dict, all of length wordlen, with at most most targets; the words are
\* kept as text
HistInitOf(wordlen, dict, most) ==
    /\ TestsIdle
    /\ LoadIdle
    /\ ReuseIdle
    /\ mpc = "idle"
    /\ extra_guesses \in BOOLEAN
    /\ targetlen = wordlen
    /\ targetfile \in SeqsUpTo(dict, most)
    /\ guessfile \in IF extra_guesses THEN SeqsUpTo(dict, MaxGuesses)
                     ELSE {<<>>}
    /\ targets = <<>>
    /\ guesses = <<>>
    /\ ntw = 0
    /\ ngw = 0
    /\ ii = 0
    /\ jj = 0
    /\ acc = 0
    /\ worst_left = 0
    /\ mcluevec = None
    /\ out = <<>>
    /\ hpc = "load_targets"
    /\ htargets = <<>>
    /\ hguesses = <<>>
    /\ hntw = 0
    /\ hngw = 0
    /\ n_cluniques = 0
    /\ cluniques = None
    /\ hii = 0
    /\ hjj = 0
    /\ hout = <<>>

\* the files and the arguments are those of MainInit
HistInit == HistInitOf(RankLen, RankWords, MaxTargets)

\* files of one-letter words, with wordlen 1
ShortHistInit == HistInitOf(1, ShortWords, MaxShortTargets)

\* int ntw = eligible_words(f, targetlen, &targets), ngw; assert(ntw);
\* without a guess list: guesses = targets; ngw = ntw
HLoadTargets ==
    /\ hpc = "load_targets"
    /\ htargets' = targetfile
    /\ hntw' = Len(targetfile)
    /\ hpc' = assert(hntw', IF extra_guesses THEN "load_guesses" ELSE "header")
    /\ IF hpc' = "header"
       THEN /\ hguesses' = htargets'
            /\ hngw' = hntw'
       ELSE UNCHANGED <<hguesses, hngw>>
    /\ UNCHANGED <<n_cluniques, cluniques, hii, hjj, hout, tvars, mvars, evars, rvars>>

\* ngw = eligible_words(f, targetlen, &guesses); assert(ngw)
HLoadGuesses ==
    /\ hpc = "load_guesses"
    /\ hguesses' = guessfile
    /\ hngw' = Len(guessfile)
    /\ hpc' = assert(hngw', "header")
    /\ UNCHANGED <<htargets, hntw, n_cluniques, cluniques, hii, hjj, hout,
                   tvars, mvars, evars, rvars>>

HistHeader == [kind |-> "header", text |-> "guess,max_targets_left_after_guess"]

\* printf of the header line; n_cluniques = ipow(3, targetlen); the guess loop
\* starts at ii = 0
HPrintHeader ==
    /\ hpc = "header"
    /\ hout' = Append(hout, HistHeader)
    /\ n_cluniques' = ipow(3, targetlen)
    /\ hii' = 0
    /\ hpc' = "guess"
    /\ UNCHANGED <<htargets, hguesses, hntw, hngw, cluniques, hjj, tvars, mvars, evars, rvars>>

\* for (ii...) { guess = guesses[ii]; int cluniques[n_cluniques]; bzero(...);
\* for (jj = 0 ...
HNextGuess ==
    /\ hpc = "guess"
    /\ hii < hngw
    /\ cluniques' = bzero_cluniques(n_cluniques)
    /\ hjj' = 0
    /\ hpc' = "target"
    /\ UNCHANGED <<htargets, hguesses, hntw, hngw, n_cluniques, hii, hout,
                   tvars, mvars, evars, rvars>>

\* one iteration of the jj loop:
\* clues_of_guess(targetlen, guess, target, clues, &clunique); cluniques[clunique]++.
\* clues is declared char clues[targetlen]; the terminating NUL that the call
\* writes to clues[targetlen] is the last byte of the buffer given to the
\* operator here: it falls into the alignment padding of the array, and
\* main never reads the clue characters
HTryTarget ==
    /\ hpc = "target"
    /\ hjj < hntw
    /\ LET r == clues_of_guess_clunique(targetlen, hguesses[hii + 1], htargets[hjj + 1],
                                         FreshBuf(targetlen + 1))
       IN cluniques' = incr_bucket(cluniques, r.cl)
    /\ hjj' = hjj + 1
    /\ UNCHANGED <<hpc, htargets, hguesses, hntw, hngw, n_cluniques, hii, hout,
                   tvars, mvars, evars, rvars>>

\* qsort(cluniques, n_cluniques, sizeof(int), comp_int_rev);
\* worst_left = cluniques[0]; printf("\"%s\",%d\n", guess, worst_left)
HEmitRecord ==
    /\ hpc = "target"
    /\ hjj >= hntw
    /\ cluniques' = qsort_int_rev(cluniques, n_cluniques)
    /\ hout' = Append(hout, [kind |-> "record",
                             guess |-> hguesses[hii + 1],
                             worst_left |-> cluniques'[0]])
    /\ hii' = hii + 1
    /\ hpc' = "guess"
    /\ UNCHANGED <<htargets, hguesses, hntw, hngw, n_cluniques, hjj, tvars, mvars, evars, rvars>>

\* the guess loop is over: return 0
HFinish ==
    /\ hpc = "guess"
    /\ hii >= hngw
    /\ hpc' = "done"
    /\ UNCHANGED <<htargets, hguesses, hntw, hngw, n_cluniques, cluniques, hii, hjj,
                   hout, tvars, mvars, evars, rvars>>

\* the statistics of a ranking record that the histogram version of src/ does
\* not compute yet, as section 4.4 describes them, on the sorted histogram
\* sorted[0..n-1] of nt targets

\* the sum of the squares of the bucket counts
RECURSIVE sum_squares(_,_)
sum_squares(sorted, ks) ==
    IF ks = {} THEN 0
    ELSE LET k == CHOOSE x \in ks : TRUE
         IN sorted[k] * sorted[k] + sum_squares(sorted, ks \ {k})

\* step 3: the average, kept as the exact ratio
average_left(sorted, n, nt) ==
    [num |-> sum_squares(sorted, {k \in 0..(n - 1) : sorted[k] # 0}), den |-> nt]

\* step 4: the walk over the sorted buckets from bucket k on; total is the
\* running total before bucket k, prev the size of the bucket before it (the
\* first bucket has none before it and is interpolated with itself)
RECURSIVE median_walk(_,_,_,_,_)
median_walk(sorted, k, total, rank, prev) ==
    LET cur == sorted[k]
    IN IF total + cur >= rank
       THEN [num |-> prev * cur + (cur - prev) * (rank - total), den |-> cur]
       ELSE median_walk(sorted, k + 1, total + cur, rank, cur)

\* step 4: the median, kept as the exact ratio
median_left(sorted, n, nt) == median_walk(sorted, 0, 0, nt \div 2, sorted[0])

\* step 5: the number of populated classifications
n_populated(sorted, n) == Cardinality({k \in 0..(n - 1) : sorted[k] # 0})

HistNext ==
    \/ HLoadTargets
    \/ HLoadGuesses
    \/ HPrintHeader
    \/ HNextGuess
    \/ HTryTarget
    \/ HEmitRecord
    \/ HFinish

SpecHist == HistInit /\ [][HistNext]_vars

\* the histogram version on the word lists of RecordsInit
RecordsHistInit == HistInitOf(RankLen, RecordWords, MaxTargets)

SpecHistRecords == RecordsHistInit /\ [][HistNext]_vars

\* the histogram version on either kind of word list
SpecBuckets == (HistInit \/ ShortHistInit) /\ [][HistNext]_vars

(***************************************************************************)
(* eligible_words()                                                        *)
(***************************************************************************)
MAX_LINE_LENGTH == 128

\* <ctype.h>, C locale
isspace(b) == b \in {9, 10, 11, 12, 13, 32}
toupper(b) == IF b \in 97..122 THEN b - 32 ELSE b

\* the bytes the enumerated lines are made of: a, B, space, 1
LineBytes == {97, 66, 32, 49}
LineContents == UNION {[1..k -> LineBytes] : k \in 0..MaxLineLen}

\* what fgets(line, MAX_LINE_LENGTH, f) stores for a line of MAX_LINE_LENGTH - 1
\* characters or more: its first MAX_LINE_LENGTH - 1 characters
LongLine == [i \in 1..(MAX_LINE_LENGTH - 1) |-> 97]

\* the strings fgets can store: a line with its newline, the last line of a
\* file that does not end in a newline, the head of a long line
Lines ==
    {c \o <<10>> : c \in LineContents} \cup (LineContents \ {<<>>}) \cup {LongLine}

\* the word lengths asked for
LoadLens == {1, 2}

\* what the memory below line[] may hold when the call starts, nearest byte
\* first: the bytes are indeterminate; a NUL byte ends what the loops read
BytesBelowLine == {<<NUL>>, <<32, NUL>>}

LoadInit ==
    /\ TestsIdle
    /\ MainIdle
    /\ HistIdle
    /\ ReuseIdle
    /\ epc = "fgets"
    /\ elen \in LoadLens
    /\ line = <<>>
    /\ before \in BytesBelowLine
    /\ buf = <<>>
    /\ nwords = 0
    /\ nlines = 0
    /\ eof = FALSE

\* line[k] for the C string ln at line[0..]; below line[0] the bytes of bf
line_at(ln, bf, k) ==
    IF k < 0 THEN bf[-k]
    ELSE IF k < Len(ln) THEN ln[k + 1]
    ELSE NUL

\* while (*start && isspace(*start)) start++;
RECURSIVE skip_leading(_,_,_)
skip_leading(ln, bf, start) ==
    LET b == line_at(ln, bf, start)
    IN IF b # NUL /\ isspace(b) THEN skip_leading(ln, bf, start + 1) ELSE start

\* faulty variant: trailing space is not trimmed
skip_trailing_off(ln, bf, end) == end

\* while (end[-1] && isspace(end[-1])) end--;
RECURSIVE skip_trailing(_,_,_)
skip_trailing(ln, bf, end) ==
    LET b == line_at(ln, bf, end - 1)
    IN IF b # NUL /\ isspace(b) THEN skip_trailing(ln, bf, end - 1) ELSE end

\* the for loop over the word, from p on:
\* lowercase letters are made uppercase in place and counted, uppercase
\* letters are counted, any other byte ends the loop by goto not_a_word
RECURSIVE upper_loop(_,_,_,_)
upper_loop(ln, p, gotlower, gotupper) ==
    LET b == line_at(ln, <<>>, p)
    IN IF b = NUL
       THEN [line |-> ln, letters |-> TRUE, gotlower |-> gotlower, gotupper |-> gotupper]
       ELSE IF b >= 97 /\ b <= 122
       THEN upper_loop([ln EXCEPT ![p + 1] = toupper(b)], p + 1, gotlower + 1, gotupper)
       ELSE IF b >= 65 /\ b <= 90
       THEN upper_loop(ln, p + 1, gotlower, gotupper + 1)
       ELSE [line |-> ln, letters |-> FALSE, gotlower |-> gotlower, gotupper |-> gotupper]

\* fgets stores the next line of the file
Fgets ==
    /\ epc = "fgets"
    /\ ~eof
    /\ nlines < MaxLines
    /\ \E l \in Lines :
          /\ line' = l
          /\ eof' = (l[Len(l)] # 10 /\ Len(l) < MAX_LINE_LENGTH - 1)
    /\ nlines' = nlines + 1
    /\ epc' = "trim"
    /\ UNCHANGED <<elen, before, buf, nwords, tvars, mvars, hvars, rvars>>

\* fgets returns NULL at the end of the file: *output = buf; return n
Return ==
    /\ epc = "fgets"
    /\ epc' = "done"
    /\ UNCHANGED <<elen, line, before, buf, nwords, nlines, eof, tvars, mvars, hvars, rvars>>

\* the body of the loop after fgets: the assertion on the line length, the
\* trimming, the length test, the case loop, and buf[n++] = strdup(start) with
\* every byte of the copy less FIRST_LETTER
TrimAndStore ==
    /\ epc = "trim"
    /\ LET ll == Len(line)
       IN IF ~(ll < MAX_LINE_LENGTH - 1)
          THEN /\ epc' = "aborted"
               /\ UNCHANGED <<line, before, buf, nwords>>
          ELSE LET start == skip_leading(line, before, 0)
                   end == skip_trailing(line, before, ll)
                   cut == IF end >= 0 THEN SubSeq(line, 1, end) ELSE line
                   u == upper_loop(cut, start, 0, 0)
               IN /\ epc' = "fgets"
                  /\ before' = IF end < 0 THEN [before EXCEPT ![-end] = NUL] ELSE before
                  /\ IF end - start # elen
                     THEN /\ line' = cut
                          /\ UNCHANGED <<buf, nwords>>
                     ELSE /\ line' = u.line
                          /\ IF ~u.letters \/ (u.gotupper # 0 /\ u.gotlower # 0)
                             THEN UNCHANGED <<buf, nwords>>
                             ELSE /\ buf' = Append(buf, _chop_word(
                                                 SubSeq(u.line, start + 1, Len(u.line))))
                                  /\ nwords' = nwords + 1
    /\ UNCHANGED <<elen, nlines, eof, tvars, mvars, hvars, rvars>>

LoadNext ==
    \/ Fgets
    \/ Return
    \/ TrimAndStore

SpecLoad == LoadInit /\ [][LoadNext]_vars

(***************************************************************************)
(* is_word_possible_after_guess() on any clue string                       *)
(***************************************************************************)
\* the clue strings of n clues, with their terminating NUL
ClueStrings(n) ==
    {cs \o <<NUL>> : cs \in [1..n -> {Absent, WrongPosition, RightPosition}]}

\* the caller has a guess, a word and a clue string of one length
RawInit ==
    /\ MainIdle
    /\ HistIdle
    /\ LoadIdle
    /\ ReuseIdle
    /\ pc = "raw"
    /\ list \in WordLists
    /\ len \in Lengths(list)
    /\ guess \in WordSet(list, len)
    /\ target = None
    /\ word \in WordSet(list, len)
    /\ clues \in ClueStrings(len)
    /\ stats = <<>>
    /\ clues1 = <<>>
    /\ clunique = None
    /\ cluevec = None
    /\ ok_guess = None
    /\ ok_cluevec = None

\* is_word_possible_after_guess(len, CHOP1(guess), CHOP2(word), clues)
RawFilter ==
    /\ pc = "raw"
    /\ ok_guess' = is_word_possible_after_guess(
                       len, _chop_word(guess), _chop_word(word), clues)
    /\ pc' = "raw_done"
    /\ UNCHANGED <<list, len, guess, target, word, clues, stats, clues1,
                   clunique, cluevec, ok_cluevec, mvars, hvars, evars, rvars>>

SpecRaw == RawInit /\ [][RawFilter]_vars

(***************************************************************************)
(* test_word_possible_after_cluevec(): one buffer compiled many times      *)
(***************************************************************************)
\* the number of compiles one run makes on the buffer
MaxCompiles == 3

\* the length the buffer is allocated for: STRUCT_CLUEVEC(6, N_LETTERS)
CLUEVEC_TEST_LEN == 6

\* the (guess, target) pairs of the compiles: those of the test, and a pair
\* of short words
ReusePairs ==
    {<<Str(<<"V","X","X","X","X","X">>), Str(<<"A","D","D","U","C","E">>)>>,
     <<Str(<<"A","D","V","I","C","E">>), Str(<<"E","V","E","N","E","R">>)>>,
     <<Str(<<"A","A","H","E","D">>), Str(<<"A","B","E","A","M">>)>>,
     <<Str(<<"A","A","E","H","D">>), Str(<<"A","A","H","E","D">>)>>,
     <<Str(<<"N","O","R","A","D">>), Str(<<"B","E","R","E","T">>)>>,
     <<Str(<<"A","B">>), Str(<<"B","A">>)>>}

\* the words a filter call may ask about after a compile for length n
ReuseWords(n) ==
    IF n = 5 THEN TestWords5
    ELSE IF n = 6 THEN TestWords6
    ELSE {Str(<<"A","B">>), Str(<<"B","A">>), Str(<<"B","B">>)}

\* calloc(1, sizeof(*cluevec))
calloc(n) == [o \in 1..n |-> 0]

ReuseInit ==
    /\ TestsIdle
    /\ MainIdle
    /\ HistIdle
    /\ LoadIdle
    /\ rpc = "compile"
    /\ cvmem = calloc(sizeof_cluevec(CLUEVEC_TEST_LEN))
    /\ rlen = 0
    /\ rguess = None
    /\ rtarget = None
    /\ rword = None
    /\ rok = None
    /\ ncompiles = 0

\* cluevec_of_guess(len, CHOP1(guess), CHOP2(target), cluevec)
ReuseCompile ==
    /\ rpc \in {"compile", "filter", "filtered"}
    /\ ncompiles < MaxCompiles
    /\ \E p \in ReusePairs : \E tie \in TieOrders :
          /\ rlen' = Len(p[1])
          /\ rguess' = p[1]
          /\ rtarget' = p[2]
          /\ cvmem' = cluevec_of_guess_in(cvmem, Len(p[1]), _chop_word(p[1]),
                                          _chop_word(p[2]), tie)
    /\ ncompiles' = ncompiles + 1
    /\ rpc' = "filter"
    /\ UNCHANGED <<rword, rok, tvars, mvars, hvars, evars>>

\* is_word_possible_after_cluevec(len, CHOP1(word), cluevec): both arguments
\* are pointers to const, nothing is written through them
ReuseFilter ==
    /\ rpc \in {"filter", "filtered"}
    /\ \E w \in ReuseWords(rlen) :
          /\ rword' = w
          /\ rok' = is_word_possible_after_cluevec(
                        rlen, _chop_word(w), load_cluevec(cvmem, rlen))
    /\ rpc' = "filtered"
    /\ UNCHANGED <<cvmem, rlen, rguess, rtarget, ncompiles,
                   tvars, mvars, hvars, evars>>

ReuseNext ==
    \/ ReuseCompile
    \/ ReuseFilter

SpecReuse == ReuseInit /\ [][ReuseNext]_vars

Next ==
    \/ CluesOfGuess
    \/ StatsOfGuess
    \/ CluesOfGuessClunique
    \/ CluevecOfGuess
    \/ PossibleAfterGuess
    \/ PossibleAfterCluevec

\* the harness on the test words and on the pool words shorter than MaxLen
FilterInit ==
    /\ Init
    /\ list = "pool" => len < MaxLen

SpecFilter == FilterInit /\ [][Next]_vars

\* the three oracle calls alone
OraclesNext ==
    \/ CluesOfGuess
    \/ StatsOfGuess
    \/ CluesOfGuessClunique

SpecOracles == Init /\ [][OraclesNext]_vars

\* the oracle calls and the compile
CompileNext ==
    \/ OraclesNext
    \/ CluevecOfGuess

SpecCompile == Init /\ [][CompileNext]_vars

Spec == Init /\ [][Next]_vars

(***************************************************************************)
(* Properties                                                              *)
(***************************************************************************)
\* the C string held by a buffer: the bytes before the first NUL
CStr(bytes) ==
    LET n == CHOOSE k \in 0..Len(bytes) :
               /\ \A i \in 1..k : bytes[i] # NUL
               /\ (k < Len(bytes) => bytes[k + 1] = NUL)
    IN SubSeq(bytes, 1, n)

Clue3 == {Absent, WrongPosition, RightPosition}
Offsets == 0..(N_LETTERS - 1)

\* the number of positions of w that hold the byte c
Occurrences(w, c) == Cardinality({i \in 1..Len(w) : w[i] = c})

\* the number of positions where g holds c and the clue is in kinds
CluesOn(g, cs, c, kinds) ==
    Cardinality({i \in 1..Len(g) : g[i] = c /\ cs[i] \in kinds})

\* the clue sequence the oracle of best_guess.c gives for text words g and t
CluesOf(g, t) ==
    CStr(clues_of_guess(Len(g), _chop_word(g), _chop_word(t), FreshBuf(Len(g) + 1)))

\* every position marker of cv accepts the chopped word w
PositionsOK(w, cv) ==
    \A i \in 1..Len(w) :
        /\ cv.must_be[i] \subseteq {w[i] - FIRST_OFFSET}
        /\ (w[i] - FIRST_OFFSET) \notin cv.must_not_be[i]

AAHED == Str(<<"A","A","H","E","D">>)
ABEAM == Str(<<"A","B","E","A","M">>)
VXXXXX == Str(<<"V","X","X","X","X","X">>)
ADDUCE == Str(<<"A","D","D","U","C","E">>)
DEDUCE == Str(<<"D","E","D","U","C","E">>)
ADVICE == Str(<<"A","D","V","I","C","E">>)

\* C1: for every guess, target and candidate word of one length, the compiled
\* filter on cluevec_of_guess(guess, target) and the raw-clue filter on
\* clues_of_guess(guess, target) return the same verdict on the word.
C1_FiltersAgree ==
    pc = "done" => ok_cluevec = ok_guess

\* a word other than the target that both filters were asked about and accept
C1_Witness ==
    /\ pc = "done"
    /\ word # target
    /\ guess # target
    /\ ok_guess = 1
    /\ ok_cluevec = 1

\* C2: a word passes the compiled filter (all position markers and all
\* retained count ranges) exactly when guessing the same guess against it
\* gives the clue sequence the guess gives against the target.
C2_PossibleIffSameClues ==
    pc = "done" => ((ok_cluevec = 1) <=> (CluesOf(guess, word) = CluesOf(guess, target)))

\* a word that satisfies every position marker and is rejected by a count range
C2_Witness ==
    /\ pc = "done"
    /\ ok_cluevec = 0
    /\ PositionsOK(_chop_word(word), cluevec)
    /\ CluesOf(guess, word) # CluesOf(guess, target)

\* C3: the target itself is judged possible by both filters when they are
\* given the clues of (guess, target).
C3_TargetPossible ==
    (pc = "done" /\ word = target) => (ok_guess = 1 /\ ok_cluevec = 1)

\* the target was tested against clues that hold a WrongPosition and an Absent
C3_Witness ==
    /\ pc = "done"
    /\ word = target
    /\ \E i \in 1..len : clues[i] = WrongPosition
    /\ \E i \in 1..len : clues[i] = Absent
    /\ ok_guess = 1
    /\ ok_cluevec = 1

\* C4: for every letter c, the positions where the guess carries c and the
\* clue is WrongPosition or RightPosition are at most the occurrences of c in
\* the target; the WrongPosition clues on c are at most the occurrences of c
\* in the target minus those matched as RightPosition on c.
C4_NoOverCredit ==
    pc = "stats" =>
        \A c \in Offsets :
            LET g == _chop_word(guess)
                t == _chop_word(target)
            IN /\ CluesOn(g, clues, c, {WrongPosition, RightPosition})
                      <= Occurrences(t, c)
               /\ CluesOn(g, clues, c, {WrongPosition})
                      <= Occurrences(t, c) - CluesOn(g, clues, c, {RightPosition})

\* a letter the guess holds more often than the target does, credited exactly
\* as often as the target holds it
C4_Witness ==
    /\ pc = "stats"
    /\ \E c \in Offsets :
          /\ Occurrences(_chop_word(target), c) >= 1
          /\ Occurrences(_chop_word(guess), c) > Occurrences(_chop_word(target), c)
          /\ CluesOn(_chop_word(guess), clues, c, {WrongPosition}) >= 1
          /\ CluesOn(_chop_word(guess), clues, c, {WrongPosition, RightPosition})
                 = Occurrences(_chop_word(target), c)

\* C5: position i is RightPosition exactly when guess[i] = target[i], and
\* each of the len output positions is Absent, WrongPosition or
\* RightPosition (never Unknown, never left unwritten).
C5_RightIffEqual ==
    pc = "stats" =>
        \A i \in 1..len :
            /\ clues[i] \in Clue3
            /\ (clues[i] = RightPosition) <=> (guess[i] = target[i])

\* clues holding a RightPosition, a WrongPosition and an Absent
C5_Witness ==
    /\ pc = "stats"
    /\ \E i \in 1..len : clues[i] = RightPosition
    /\ \E i \in 1..len : clues[i] = WrongPosition
    /\ \E i \in 1..len : clues[i] = Absent

RWAWA == Str(<<"R","W","A","W","A">>)

\* C6: the clues of guess "AAHED" against target "ABEAM" are exactly "RWAWA"
\* in all three versions of the oracle.
C6_AahedAbeam ==
    (guess = AAHED /\ target = ABEAM) =>
        /\ pc \notin {"clues"} => CStr(clues) = RWAWA
        /\ pc \notin {"clues", "stats"} => CStr(stats) = RWAWA
        /\ pc \notin {"clues", "stats", "clunique"} => CStr(clues1) = RWAWA

\* all three oracles have run on AAHED against ABEAM
C6_Witness ==
    /\ pc = "cluevec"
    /\ guess = AAHED
    /\ target = ABEAM
    /\ CStr(stats) = RWAWA

\* C7: guess "VXXXXX" against target "ADDUCE" gives clues "AAAAAA"; with them
\* "ADVICE" is judged impossible and "DEDUCE" and "ADDUCE" possible, by the
\* raw-clue filter and by the compiled filter.
C7_BannedLetter ==
    (guess = VXXXXX /\ target = ADDUCE) =>
        /\ pc # "clues" => CStr(clues) = [i \in 1..6 |-> Absent]
        /\ (pc \in {"filter_cluevec", "done"} /\ word = ADVICE) => ok_guess = 0
        /\ (pc \in {"filter_cluevec", "done"} /\ word \in {DEDUCE, ADDUCE}) => ok_guess = 1
        /\ (pc = "done" /\ word = ADVICE) => ok_cluevec = 0
        /\ (pc = "done" /\ word \in {DEDUCE, ADDUCE}) => ok_cluevec = 1

\* both filters have judged ADVICE after VXXXXX against ADDUCE
C7_Witness ==
    /\ pc = "done"
    /\ guess = VXXXXX
    /\ target = ADDUCE
    /\ word = ADVICE
    /\ ok_cluevec = 0

\* the base-3 digit of a clue and back
Trit(c) == IF c = RightPosition THEN 2 ELSE IF c = WrongPosition THEN 1 ELSE 0
ClueOfTrit(d) == IF d = 2 THEN RightPosition ELSE IF d = 1 THEN WrongPosition ELSE Absent

\* the base-3 numeral of a clue sequence, position 1 most significant
Base3(cs) ==
    LET RECURSIVE sum(_)
        sum(i) == IF i > Len(cs) THEN 0
                  ELSE Trit(cs[i]) * 3^(Len(cs) - i) + sum(i + 1)
    IN sum(1)

\* the clue sequence of n digits that the integer cl is the numeral of
Decode(cl, n) == [i \in 1..n |-> ClueOfTrit((cl \div 3^(n - i)) % 3)]

\* C8: the clunique returned with a clue sequence is its base-3 numeral
\* (Absent 0, WrongPosition 1, RightPosition 2, first position most
\* significant): decoding it digit by digit gives back the clue sequence of
\* the same call, and a pair of the same length with another clue sequence
\* (the same guess against the candidate word, the candidate word as guess
\* against the same target) has another clunique.
C8_CluniqueBase3 ==
    pc = "done" =>
        LET cs == CStr(clues1)
            r2 == clues_of_guess_clunique(len, guess, word, FreshBuf(len + 1))
            r3 == clues_of_guess_clunique(len, word, target, FreshBuf(len + 1))
        IN /\ Len(cs) = len
           /\ clunique = Base3(cs)
           /\ Decode(clunique, len) = cs
           /\ CStr(r2.clues) # cs => r2.cl # clunique
           /\ CStr(r3.clues) # cs => r3.cl # clunique

\* a clue sequence with all three digits, and a second pair with other clues
C8_Witness ==
    /\ pc = "done"
    /\ \E i \in 1..len : clues1[i] = RightPosition
    /\ \E i \in 1..len : clues1[i] = WrongPosition
    /\ \E i \in 1..len : clues1[i] = Absent
    /\ CStr(clues_of_guess_clunique(len, guess, word, FreshBuf(len + 1)).clues)
           # CStr(clues1)

\* exactly one WrongPosition, every other position RightPosition
OneWrongRestRight(cs) ==
    \E i \in 1..Len(cs) :
        /\ cs[i] = WrongPosition
        /\ \A j \in 1..Len(cs) : j # i => cs[j] = RightPosition

\* the cluniques of those clue sequences of length n
OneWrongRestRightCodes(n) == {(3^n - 1) - 3^(n - i) : i \in 1..n}

\* C9: no guess/target pair gives a clue sequence with exactly one
\* WrongPosition and every other position RightPosition, and clues_of_guess
\* never returns the clunique of such a sequence.
C9_NoLoneWrongPosition ==
    pc = "cluevec" =>
        /\ ~OneWrongRestRight(CStr(clues))
        /\ ~OneWrongRestRight(CStr(clues1))
        /\ clunique \notin OneWrongRestRightCodes(len)

\* guess and target differ in exactly one position, which is then Absent
C9_Witness ==
    /\ pc = "cluevec"
    /\ len >= 2
    /\ Cardinality({i \in 1..len : guess[i] # target[i]}) = 1
    /\ \E i \in 1..len : clues[i] = Absent /\ clues1[i] = Absent

\* C10: for every guess, in the target list or not, and every non-empty
\* target list, worst_left >= avg_left >= 1, that is
\* worst_left * ntw >= acc >= ntw.
C10_WorstAvgOne ==
    /\ (mpc = "target" /\ jj >= ntw /\ ntw > 0) =>
           (worst_left * ntw >= acc /\ acc >= ntw)
    /\ \A k \in 1..Len(out) :
           out[k].kind = "record" =>
               /\ out[k].worst_left * out[k].avg_left.den >= out[k].avg_left.num
               /\ out[k].avg_left.num >= out[k].avg_left.den

\* a record of a guess that is no target, with worst_left > avg_left > 1
C10_Witness ==
    \E k \in 1..Len(out) :
        /\ out[k].kind = "record"
        /\ \A t \in 1..Len(targetfile) : targetfile[t] # out[k].guess
        /\ out[k].worst_left * out[k].avg_left.den > out[k].avg_left.num
        /\ out[k].avg_left.num > out[k].avg_left.den

\* C11: when the target list has one word and the guess is that word, the
\* record of the guess has worst case 1, average 1 and median 1, and the
\* histogram of the guess has one populated classification, of count 1; the
\* ranking loop of best_guess.c gives the same average and worst case.
C11_SingleTargetRecord ==
    (hpc = "guess" /\ hii >= 1 /\ hntw = 1 /\ hguesses[hii] = htargets[1]) =>
        /\ hout[hii + 1].worst_left = 1
        /\ cluniques[0] = 1
        /\ \A k \in 1..(n_cluniques - 1) : cluniques[k] = 0
        /\ n_populated(cluniques, n_cluniques) = 1
        /\ LET avg == average_left(cluniques, n_cluniques, hntw)
           IN avg.num = avg.den
        /\ LET median == median_left(cluniques, n_cluniques, hntw)
           IN median.num = median.den
        /\ \A tie \in TieOrders :
              LET r == ranking_loop(targetlen, _chop_word(hguesses[hii]),
                                    loaded(htargets), hntw, 0, 0, 0, tie)
              IN /\ avg_left_of(r.acc, hntw).num = avg_left_of(r.acc, hntw).den
                 /\ r.worst_left = 1

C11_Witness ==
    /\ hpc = "guess"
    /\ hii = 1
    /\ hntw = 1
    /\ hguesses[1] = htargets[1]
    /\ hout[2].guess = htargets[1]
    /\ hout[2].worst_left = 1

\* the sum of the squares of the bucket counts of hist over the buckets ks
RECURSIVE SquaresOver(_,_)
SquaresOver(hist, ks) ==
    IF ks = {} THEN 0
    ELSE LET k == CHOOSE x \in ks : TRUE
         IN hist[k] * hist[k] + SquaresOver(hist, ks \ {k})

\* the histogram the loop of part_001 builds for the text guess g and the
\* text targets tgts of length tlen
HistogramOf(tlen, g, tgts) ==
    histogram_loop(tlen, g, tgts, Len(tgts), 0, bzero_cluniques(ipow(3, tlen)))

\* C12: for every guess and every non-empty target list, duplicates included,
\* the average of the record, acc / ntw with acc the sum over the targets t of
\* the number of targets still possible after the clues of (guess, t), equals
\* (sum over the buckets of k^2) / ntw, k being the count of the bucket in the
\* clunique histogram of the guess.
C12_AverageIsSumOfSquares ==
    (mpc = "guess" /\ ii >= 1) =>
        LET hist == HistogramOf(targetlen, _unchop_word(targetlen, guesses[ii]), targetfile)
            squares == SquaresOver(hist, {k \in DOMAIN hist : hist[k] # 0})
        IN /\ acc = squares
           /\ out[ii + 1].avg_left.num * ntw = squares * out[ii + 1].avg_left.den

C12_Witness ==
    /\ mpc = "guess"
    /\ ii = 1
    /\ ntw = 3
    /\ targetfile[1] = targetfile[2]
    /\ targetfile[3] # targetfile[1]
    /\ out[2].avg_left = [num |-> 9, den |-> 3]

\* C13: for every guess and every non-empty target list, the worst case of
\* the histogram version, the first element of the clunique histogram sorted
\* in descending order, is the largest bucket count and equals worst_left of
\* best_guess.c, the largest over the targets t of the number of targets the
\* compiled filter leaves possible after the clues of (guess, t).
C13_WorstIsLargestBucket ==
    (hpc = "guess" /\ hii >= 1) =>
        /\ hout[hii + 1].worst_left = cluniques[0]
        /\ \A k \in 0..(n_cluniques - 1) : cluniques[k] <= cluniques[0]
        /\ \A tie \in TieOrders :
              ranking_loop(targetlen, _chop_word(hguesses[hii]), loaded(htargets),
                           hntw, 0, 0, 0, tie).worst_left = cluniques[0]

C13_Witness ==
    /\ hpc = "guess"
    /\ hii = 1
    /\ hntw = 3
    /\ hout[2].worst_left = 2
    /\ cluniques[0] = 2
    /\ cluniques[1] = 1

\* the record the ranking loop of best_guess.c prints for the chopped guess g
\* and the chopped targets tgts, the have sort breaking its ties as in tie
RecordOf(g, tgts, tie) ==
    LET r == ranking_loop(Len(g), g, tgts, Len(tgts), 0, 0, 0, tie)
    IN [kind |-> "record",
        guess |-> _unchop_word(Len(g), g),
        avg_left |-> avg_left_of(r.acc, Len(tgts)),
        worst_left |-> r.worst_left]

\* the records on stdout are those of the first ii guesses, in order
C14_RecordsSoFar ==
    mpc \in {"guess", "target", "count", "done"} =>
        /\ Len(out) = ii + 1
        /\ \A i \in 1..ii :
              /\ out[i + 1].kind = "record"
              /\ out[i + 1].guess = _unchop_word(targetlen, guesses[i])
        /\ \A i, j \in 1..ii : guesses[i] = guesses[j] => out[i + 1] = out[j + 1]
        /\ (mpc = "guess" /\ ii >= 1) =>
               out[ii + 1] = RecordOf(guesses[ii], targets, CHOOSE tie \in TieOrders : TRUE)

\* no step changes or removes a line that is on stdout
C14_OutOnlyGrows ==
    /\ Len(out') >= Len(out)
    /\ \A i \in 1..Len(out) : out'[i] = out[i]

\* C14: in the ranking loop, after k iterations exactly k records are on
\* stdout and the i-th record is for the i-th guess of the guess list; the
\* record of a guess is a function of the guess and the target list alone, so
\* it is the same wherever the guess appears in the list; and a record that
\* is on stdout is never changed by a later step, nor by the run stopping
\* between two guesses.
C14_RecordsIndependent == [](C14_RecordsSoFar) /\ [][C14_OutOnlyGrows]_vars

C14_Witness ==
    /\ mpc = "guess"
    /\ ii = 3
    /\ Len(out) = 4
    /\ guesses[1] = guesses[3]
    /\ guesses[2] # guesses[1]
    /\ out[4] = out[2]
    /\ out[3] # out[2]

\* C15: when the target file has no eligible word, main aborts before it
\* prints the header or any record, and the division acc / ntw is never made
\* with ntw = 0; the same holds when a guess file is given and has no
\* eligible word.
C15_EmptyListAborts ==
    /\ targetfile = <<>> =>
           /\ mpc \in {"load_targets", "aborted"}
           /\ out = <<>>
    /\ (extra_guesses /\ guessfile = <<>>) =>
           /\ mpc \in {"load_targets", "load_guesses", "aborted"}
           /\ out = <<>>
    /\ mpc = "aborted" => out = <<>>
    /\ out # <<>> => (ntw > 0 /\ ngw > 0)
    /\ \A i \in 1..Len(out) : out[i].kind = "record" => out[i].avg_left.den > 0

C15_Witness ==
    /\ mpc = "aborted"
    /\ targetfile = <<>>
    /\ ntw = 0
    /\ out = <<>>

\* cluevec_of_guess has just returned (the later calls of the harness leave
\* the cluevec as it is)
Compiled == pc = "filter_guess"

\* the letter (as an offset) of position i of the guess of the harness
GuessLetter(i) == _chop_word(guess)[i] - FIRST_OFFSET

\* the letter l of the guess has clues, and all of them are Absent
AllAbsent(l) ==
    /\ CluesOn(_chop_word(guess), CStr(clues), l + FIRST_OFFSET, {Absent}) > 0
    /\ CluesOn(_chop_word(guess), CStr(clues), l + FIRST_OFFSET,
               {WrongPosition, RightPosition}) = 0

\* C16 as stated: no position of a compiled cluevec has both must_be[i] and
\* must_not_be[i] non-empty.
C16_OneMarkerPerPosition ==
    Compiled => \A i \in 1..len :
        ~(cluevec.must_be[i] # {} /\ cluevec.must_not_be[i] # {})

\* C16, amended: no position of a compiled cluevec has its own guess letter
\* in both markers: a RightPosition position has must_be[i] = {G[i]} and
\* G[i] is not in must_not_be[i], any other position has must_be[i] empty;
\* the letters of must_not_be[i] at a position with a must_be marker are
\* letters all of whose clues are Absent, which are banned at every position.
C16_OwnLetterInOneMarker ==
    Compiled => \A i \in 1..len :
        /\ ~(GuessLetter(i) \in cluevec.must_be[i]
             /\ GuessLetter(i) \in cluevec.must_not_be[i])
        /\ cluevec.must_be[i] =
               IF CStr(clues)[i] = RightPosition THEN {GuessLetter(i)} ELSE {}
        /\ cluevec.must_be[i] # {} =>
               \A l \in cluevec.must_not_be[i] :
                   /\ l # GuessLetter(i)
                   /\ AllAbsent(l)
                   /\ \A j \in 1..len : l \in cluevec.must_not_be[j]

C16_Witness ==
    /\ Compiled
    /\ \E i \in 1..len :
          /\ cluevec.must_be[i] = {GuessLetter(i)}
          /\ cluevec.must_not_be[i] # {}
          /\ GuessLetter(i) \notin cluevec.must_not_be[i]

\* the line l without its leading and trailing whitespace
Trimmed(l) ==
    LET keep == {i \in 1..Len(l) : l[i] \notin {9, 10, 11, 12, 13, 32}}
    IN IF keep = {} THEN <<>>
       ELSE SubSeq(l, CHOOSE i \in keep : \A j \in keep : i <= j,
                      CHOOSE i \in keep : \A j \in keep : j <= i)

AllUpper(w) == \A i \in 1..Len(w) : w[i] \in 65..90
AllLower(w) == \A i \in 1..Len(w) : w[i] \in 97..122
UpperCase(w) == [i \in 1..Len(w) |-> IF w[i] \in 97..122 THEN w[i] - 32 ELSE w[i]]

\* the line l is a word of n letters, all in A-Z or all in a-z, when trimmed
EligibleLine(l, n) ==
    /\ Len(Trimmed(l)) = n
    /\ AllUpper(Trimmed(l)) \/ AllLower(Trimmed(l))

\* the words stored once the line in line[] is dealt with
StoredAfterLine ==
    IF EligibleLine(line, elen)
    THEN Append(buf, _chop_word(UpperCase(Trimmed(line))))
    ELSE buf

\* the words stored so far are n words of len uppercase letters
C17_StoredWords ==
    (epc # "idle") =>
        /\ nwords = Len(buf)
        /\ \A i \in 1..Len(buf) :
              /\ Len(buf[i]) = elen
              /\ AllUpper(_unchop_word(elen, buf[i]))

\* the line in line[] is stored when it is eligible, is ignored when it is
\* not, and the loop goes on with the next line
C17_LineHandled ==
    /\ epc' = "fgets"
    /\ buf' = StoredAfterLine
    /\ nwords' = Len(buf')

\* C17 as stated: eligible_words stores, in file order, exactly the lines
\* that when trimmed of leading and trailing whitespace have len characters,
\* all in A-Z or all in a-z, every other line being ignored, and the stored
\* words are uppercase.
C17_EligibleLinesStored ==
    [](C17_StoredWords) /\ [][epc = "trim" => C17_LineHandled]_vars

\* C17, amended: the same for every line that fgets stores in fewer than
\* MAX_LINE_LENGTH - 1 bytes, newline included; a longer line is not ignored,
\* it fails assert(ll < MAX_LINE_LENGTH - 1) and the program aborts.
C17_ShortLinesStored ==
    /\ [](C17_StoredWords)
    /\ [][epc = "trim" =>
             IF Len(line) < MAX_LINE_LENGTH - 1
             THEN C17_LineHandled
             ELSE epc' = "aborted" /\ buf' = buf /\ nwords' = nwords]_vars

C17_Witness ==
    /\ epc = "fgets"
    /\ elen = 2
    /\ nwords = 2
    /\ line = <<32, 65, 65>>
    /\ buf[1] = _chop_word(<<66, 66>>)
    /\ buf[2] = _chop_word(<<65, 65>>)

\* C18: is_word_possible_after_guess(G, W, clues) returns 1 exactly when
\* (a) at every position i, G[i] = W[i] iff clues[i] is RightPosition, and
\* (b) for every letter c, with left(c) the occurrences of c in W at the
\* positions whose clue is not RightPosition, wp(c) the WrongPosition clues
\* on c in G and a(c) the Absent clues on c in G: left(c) >= wp(c), and
\* left(c) <= wp(c) if a(c) > 0; otherwise it returns 0.
C18_RawFilterRule ==
    pc = "raw_done" =>
        LET G == _chop_word(guess)
            W == _chop_word(word)
            cs == CStr(clues)
            left(c) == Cardinality({i \in 1..len : W[i] = c /\ cs[i] # RightPosition})
            wp(c) == CluesOn(G, cs, c, {WrongPosition})
            a(c) == CluesOn(G, cs, c, {Absent})
            A == \A i \in 1..len : (G[i] = W[i]) <=> (cs[i] = RightPosition)
            B == \A l \in Offsets :
                     LET c == l + FIRST_OFFSET
                     IN /\ left(c) >= wp(c)
                        /\ a(c) > 0 => left(c) <= wp(c)
        IN ok_guess = IF A /\ B THEN 1 ELSE 0

\* a word is rejected by the counts alone: its positions agree with the
\* clues, but it lacks a letter the clues mark WrongPosition
C18_Witness ==
    /\ pc = "raw_done"
    /\ ok_guess = 0
    /\ len = 3
    /\ \A i \in 1..len : (guess[i] = word[i]) <=> (clues[i] = RightPosition)
    /\ \E i \in 1..len : clues[i] = WrongPosition
    /\ \E i \in 1..len : clues[i] = RightPosition

\* the entry of have[] that holds the counts of the letter l: the entry with
\* c = l, or the sentinel when the sentinel has taken the place of the letter
HaveOf(have, l) ==
    IF \E i \in 1..N_LETTERS : have[i].c = l + FIRST_OFFSET
    THEN have[CHOOSE i \in 1..N_LETTERS : have[i].c = l + FIRST_OFFSET]
    ELSE have[CHOOSE i \in 1..N_LETTERS : have[i].c = NON_LETTER]

\* the number of clues of the kinds given on the letter l of the guess
CluesOnLetter(l, kinds) ==
    CluesOn(_chop_word(guess), CStr(clues), l + FIRST_OFFSET, kinds)

\* have[] after pass 1 of the compile of the guess and target of the harness
HaveAfterPass1 ==
    cluevec_pass1(len, _chop_word(guess), _chop_word(target), 1,
                  [cv |-> cluevec_init(len),
                   leftovers |-> [i \in 1..len |-> NON_LETTER]]).cv.have

\* C19 as stated: the final at_most of every letter c is L minus the number
\* of positions where the guess carries c with an Absent or WrongPosition
\* clue.
C19_AtMostIsLenMinusMisses ==
    Compiled => \A l \in Offsets :
        HaveOf(cluevec.have, l).at_most
            = len - CluesOnLetter(l, {Absent, WrongPosition})

\* C19, amended: at_most of every letter c starts at L and pass 1 decrements
\* it once per Absent or WrongPosition occurrence of c in the guess; pass 2
\* then sets the at_most of a letter that has an Absent clue to its at_least.
\* The final value is L minus the number of WrongPosition clues on c when c
\* has no Absent clue, and the number of RightPosition and WrongPosition
\* clues on c when it has one.
C19_AtMostAfterBothPasses ==
    Compiled => \A pass1 \in {HaveAfterPass1} : \A l \in Offsets :
        /\ cluevec_init(len).have[l + 1].at_most = len
        /\ pass1[l + 1].at_most
               = len - CluesOnLetter(l, {Absent, WrongPosition})
        /\ HaveOf(cluevec.have, l).at_most
               = IF CluesOnLetter(l, {Absent}) > 0
                 THEN CluesOnLetter(l, {RightPosition, WrongPosition})
                 ELSE len - CluesOnLetter(l, {WrongPosition})

\* a letter with a WrongPosition and an Absent clue: pass 1 leaves L - 2,
\* the final value is 1
C19_Witness ==
    /\ Compiled
    /\ \E l \in Offsets :
          /\ CluesOnLetter(l, {Absent}) = 1
          /\ CluesOnLetter(l, {WrongPosition}) = 1
          /\ HaveOf(cluevec.have, l).c = l + FIRST_OFFSET
          /\ HaveOf(cluevec.have, l).at_most = 1
          /\ len - CluesOnLetter(l, {Absent, WrongPosition}) # 1

\* C20: after cluevec_of_guess(G, T), every letter c whose final at_most is
\* 0 occurs in G with no RightPosition and no WrongPosition clue, and
\* must_not_be of every position contains c; and a letter is in
\* must_not_be[i] only if it is G[i] at a position i whose clue is not
\* RightPosition, or is such a letter with final at_most 0.
C20_FullBan ==
    Compiled =>
        /\ \A l \in Offsets :
              HaveOf(cluevec.have, l).at_most = 0 =>
                  /\ AllAbsent(l)
                  /\ \A i \in 1..len : l \in cluevec.must_not_be[i]
        /\ \A i \in 1..len : \A l \in cluevec.must_not_be[i] :
              \/ l = GuessLetter(i) /\ CStr(clues)[i] # RightPosition
              \/ HaveOf(cluevec.have, l).at_most = 0

\* a fully banned letter next to a letter that is banned at its own position
\* only
C20_Witness ==
    /\ Compiled
    /\ \E l, m \in Offsets :
          /\ HaveOf(cluevec.have, l).at_most = 0
          /\ \A i \in 1..len : l \in cluevec.must_not_be[i]
          /\ HaveOf(cluevec.have, m).at_most # 0
          /\ \E i, j \in 1..len : /\ m \in cluevec.must_not_be[i]
                                    /\ m \notin cluevec.must_not_be[j]


\* the index of the sentinel of have[], or N_LETTERS + 1 when there is none
SentinelAt(have) ==
    IF \E i \in 1..N_LETTERS : have[i].c = NON_LETTER
    THEN CHOOSE i \in 1..N_LETTERS :
            /\ have[i].c = NON_LETTER
            /\ \A j \in 1..(i - 1) : have[j].c # NON_LETTER
    ELSE N_LETTERS + 1

\* the letter whose entry the sentinel has overwritten
SentinelLetter(have) ==
    CHOOSE l \in Offsets : \A i \in 1..N_LETTERS : have[i].c # l + FIRST_OFFSET

\* the verdict of a scan that does not stop at the sentinel: the position
\* markers, and the count range of every entry of have[], where the entry
\* of the sentinel counts the letter the sentinel has overwritten
FullScan(w, cv) ==
    /\ PositionsOK(w, cv)
    /\ \A i \in 1..N_LETTERS :
          \A c \in {IF cv.have[i].c = NON_LETTER
                    THEN SentinelLetter(cv.have) + FIRST_OFFSET
                    ELSE cv.have[i].c} :
             /\ Occurrences(w, c) >= cv.have[i].at_least
             /\ Occurrences(w, c) <= cv.have[i].at_most

\* C21: after the sort and the placing of the sentinel, the entries before
\* the sentinel are in descending at_least order with ties in ascending
\* at_most order, and every entry at or after the sentinel has at_most = 0
\* or at_least = 0 and at_most = L; a letter with at_most = 0 is banned at
\* every position, so the scan that stops at the sentinel gives the verdict
\* of a scan that goes on over all the entries.
C21_SentinelSkipsNothing ==
    /\ Compiled => \A s \in {SentinelAt(cluevec.have)} :
          /\ \A i \in 1..(s - 1) : \A j \in (i + 1)..(s - 1) :
                \/ cluevec.have[i].at_least > cluevec.have[j].at_least
                \/ /\ cluevec.have[i].at_least = cluevec.have[j].at_least
                   /\ cluevec.have[i].at_most <= cluevec.have[j].at_most
          /\ \A i \in s..N_LETTERS :
                /\ Uninformative(cluevec.have[i], len)
                /\ cluevec.have[i].at_most = 0 =>
                      \A l \in {IF i = s THEN SentinelLetter(cluevec.have)
                                ELSE cluevec.have[i].c - FIRST_OFFSET} :
                         \A p \in 1..len : l \in cluevec.must_not_be[p]
    /\ pc = "done" =>
          (ok_cluevec = 1 <=> FullScan(_chop_word(word), cluevec))

\* the scan stops in the middle of have[]: entries with equal at_least come
\* before the sentinel, a fully banned letter comes after it, and the word
\* asked about is rejected by the ban alone
C21_Witness ==
    /\ pc = "done"
    /\ ok_cluevec = 0
    /\ \E s \in {SentinelAt(cluevec.have)} :
          /\ s > 2
          /\ cluevec.have[1].at_least = cluevec.have[2].at_least
          /\ \E i \in (s + 1)..N_LETTERS :
                /\ cluevec.have[i].at_most = 0
                /\ Occurrences(_chop_word(word), cluevec.have[i].c) > 0


\* C22: one buffer compiled again and again, for words of different lengths,
\* holds after every compile what a compile into a freshly zeroed buffer
\* gives for the last (guess, target), and every filter call gives the
\* verdict it gives there; a filter call changes neither the buffer nor the
\* words.
C22_VerdictAsOnFreshBuffer ==
    /\ rpc \in {"filter", "filtered"} =>
          \E tie \in TieOrders :
              load_cluevec(cvmem, rlen) =
                  cluevec_of_guess(rlen, _chop_word(rguess), _chop_word(rtarget), tie)
    /\ rpc = "filtered" =>
          \A tie \in TieOrders :
              rok = is_word_possible_after_cluevec(rlen, _chop_word(rword),
                        load_cluevec(
                            cluevec_of_guess_in(
                                calloc(sizeof_cluevec(CLUEVEC_TEST_LEN)),
                                rlen, _chop_word(rguess), _chop_word(rtarget),
                                tie),
                            rlen))

C22_FilterChangesNothing ==
    (rpc' = "filtered") =>
        /\ cvmem' = cvmem
        /\ <<rlen', rguess', rtarget'>> = <<rlen, rguess, rtarget>>

C22_BufferReuse ==
    [](C22_VerdictAsOnFreshBuffer) /\ [][C22_FilterChangesNothing]_vars

\* a filter call after a compile for five letters that followed a compile for
\* six: bytes of the longer layout lie behind the shorter one
C22_Witness ==
    /\ rpc = "filtered"
    /\ ncompiles >= 2
    /\ rlen = 5
    /\ rok = 0
    /\ \E o \in (sizeof_cluevec(rlen) + 1)..Len(cvmem) : cvmem[o] # 0


\* C23: the raw-clue filter accepts the word W after the clues of the guess
\* against the target T exactly when the guess gives the same clues against
\* W as against T; so for a fixed guess the relation is symmetric (T is
\* possible after the clues of W exactly when W is possible after those of
\* T) and transitive (the words possible after the clues of a possible W are
\* those possible after the clues of T), and the words possible after the
\* clues of T are the words of the bucket of T.
C23_RawFilterIsSameClues ==
    pc = "done" =>
        \A cw \in {clues_of_guess(len, _chop_word(guess), _chop_word(word),
                                  FreshBuf(len + 1))} :
            /\ (ok_guess = 1) <=> (CStr(cw) = CStr(clues))
            /\ is_word_possible_after_guess(
                   len, _chop_word(guess), _chop_word(target), cw) = ok_guess
            /\ is_word_possible_after_guess(
                   len, _chop_word(guess), _chop_word(word), cw) = 1
            /\ ok_guess = 1 =>
                  \A v \in WordSet(list, len) :
                      is_word_possible_after_guess(
                          len, _chop_word(guess), _chop_word(v), cw)
                      = is_word_possible_after_guess(
                          len, _chop_word(guess), _chop_word(v), clues)

\* a bucket of three words: the target, the word asked about and a third one
C23_Witness ==
    /\ pc = "done"
    /\ ok_guess = 1
    /\ word # target
    /\ \E v \in WordSet(list, len) \ {word, target} :
          is_word_possible_after_guess(
              len, _chop_word(guess), _chop_word(v), clues) = 1
    /\ \E v \in WordSet(list, len) :
          is_word_possible_after_guess(
              len, _chop_word(guess), _chop_word(v), clues) = 0


\* the reference clue of position i of the guess g against the target t:
\* RightPosition where the letters agree; among the other positions that
\* carry the letter c, the first min(g(c), t(c)) - r(c) from the left are
\* WrongPosition and the later ones Absent, with g(c) and t(c) the
\* occurrences of c in g and t and r(c) the positions where both hold c
ReferenceClue(g, t, i) ==
    LET c == g[i]
        r == Cardinality({j \in 1..Len(g) : g[j] = c /\ t[j] = c})
        gc == Occurrences(g, c)
        tc == Occurrences(t, c)
        credit == (IF gc < tc THEN gc ELSE tc) - r
        earlier == Cardinality({j \in 1..(i - 1) : g[j] = c /\ t[j] # c})
    IN IF g[i] = t[i] THEN RightPosition
       ELSE IF earlier < credit THEN WrongPosition
       ELSE Absent

\* C24: clues_of_guess gives the reference clues at every position, followed
\* by the terminating NUL; so the RightPosition and WrongPosition clues on a
\* letter c number min(g(c), t(c)), and no Absent clue on c comes before a
\* WrongPosition clue on c.
C24_OracleIsReference ==
    pc = "stats" =>
        /\ \A i \in 1..len : clues[i] = ReferenceClue(guess, target, i)
        /\ clues[len + 1] = NUL
        /\ \A i \in 1..len :
              LET gc == Occurrences(guess, guess[i])
                  tc == Occurrences(target, guess[i])
              IN CluesOn(guess, clues, guess[i], {RightPosition, WrongPosition})
                     = IF gc < tc THEN gc ELSE tc
        /\ \A i, j \in 1..len :
              (i < j /\ guess[i] = guess[j] /\ clues[i] = Absent)
                  => clues[j] # WrongPosition

\* a letter with a WrongPosition and then an Absent clue: the credit of one
\* is used up by the first of the two misplaced copies
C24_Witness ==
    /\ pc = "stats"
    /\ \E j, k \in 1..len :
          /\ guess[j] = guess[k]
          /\ j < k
          /\ clues[j] = WrongPosition
          /\ clues[k] = Absent


\* the clue sequences an oracle can give for the words g and t from position
\* k on when it may consume any instance of a matching letter of the pool
\* (pool[i] = 0: the letter of position i is matched in place or consumed)
RECURSIVE OracleAnyInstance(_,_,_,_,_)
OracleAnyInstance(g, t, k, pool, cs) ==
    IF k > Len(g) THEN {cs}
    ELSE IF g[k] = t[k]
    THEN OracleAnyInstance(g, t, k + 1, pool, Append(cs, RightPosition))
    ELSE IF \E i \in 1..Len(g) : pool[i] = g[k]
    THEN UNION {OracleAnyInstance(g, t, k + 1, [pool EXCEPT ![i] = 0],
                                  Append(cs, WrongPosition)) :
                    i \in {i \in 1..Len(g) : pool[i] = g[k]}}
    ELSE OracleAnyInstance(g, t, k + 1, pool, Append(cs, Absent))

\* C25: stats_of_guess with its compacted pool, clues_of_guess with '\0' as
\* the removed marker and clues_of_guess over the shifted letters with 0xff
\* as the removed marker write the same clue string for every guess and
\* target of one length, and that string is the only one an oracle can give
\* whichever instance of a matching pool letter it consumes.
C25_OraclesAgree ==
    pc = "cluevec" =>
        /\ CStr(stats) = CStr(clues)
        /\ CStr(clues1) = CStr(clues)
        /\ Len(CStr(clues)) = len
        /\ OracleAnyInstance(guess, target, 1,
               [i \in 1..len |-> IF guess[i] = target[i] THEN 0 ELSE target[i]],
               <<>>) = {CStr(clues)}

\* the pool holds two instances of a letter the guess has out of place, so
\* there is a choice of the instance to consume
C25_Witness ==
    /\ pc = "cluevec"
    /\ \E k \in 1..len :
          /\ clues[k] = WrongPosition
          /\ Cardinality({i \in 1..len : target[i] = guess[k]
                                          /\ guess[i] # target[i]}) >= 2
    /\ CStr(stats) = CStr(clues1)


\* the sum of the buckets of hist with an index in ks
RECURSIVE BucketSum(_,_)
BucketSum(hist, ks) ==
    IF ks = {} THEN 0
    ELSE LET k == CHOOSE x \in ks : TRUE
         IN hist[k] + BucketSum(hist, ks \ {k})

\* 3^L, by repeated multiplication
RECURSIVE Pow3(_)
Pow3(L) == IF L = 0 THEN 1 ELSE 3 * Pow3(L - 1)

\* C26: in the histogram loop n_cluniques = ipow(3, L) is 3^L, the clunique
\* of the pair about to be counted is an index of cluniques[0..3^L - 1],
\* the buckets sum to the number of targets counted so far (Nt after the
\* last one), and at most min(Nt, 3^L) of them are not zero.
C26_BucketsInRange ==
    hpc = "target" =>
        /\ n_cluniques = Pow3(targetlen)
        /\ DOMAIN cluniques = 0..(n_cluniques - 1)
        /\ hjj < hntw =>
              \A cl \in {clues_of_guess_clunique(targetlen, hguesses[hii + 1],
                             htargets[hjj + 1], FreshBuf(targetlen + 1)).cl} :
                  /\ 0 <= cl
                  /\ cl < n_cluniques
        /\ hjj <= hntw
        /\ \A populated \in {{b \in DOMAIN cluniques : cluniques[b] # 0}} :
              /\ \A b \in DOMAIN cluniques : cluniques[b] >= 0
              /\ BucketSum(cluniques, populated) = hjj
              /\ Cardinality(populated) <= hjj
              /\ Cardinality(populated) <= n_cluniques

\* four one-letter targets have been counted in a histogram of three buckets
C26_Witness ==
    /\ hpc = "target"
    /\ hjj = hntw
    /\ hntw > n_cluniques
    /\ Cardinality({b \in DOMAIN cluniques : cluniques[b] # 0}) = 2


\* the cluevec after the first k iterations of pass 1 of the compile of the
\* guess and the target of the harness
AfterPass1Steps(k) ==
    cluevec_pass1(k, _chop_word(guess), _chop_word(target), 1,
                  [cv |-> cluevec_init(len),
                   leftovers |-> [i \in 1..len |-> NON_LETTER]])

\* the cluevec after pass 1 and the first k iterations of pass 2: pass 2 on
\* a guess whose letters behind position k are those of the target, which
\* it passes over
AfterPass2Steps(k) ==
    cluevec_pass2(len,
                  [i \in 1..len |-> IF i <= k THEN _chop_word(guess)[i]
                                    ELSE _chop_word(target)[i]],
                  _chop_word(target), 1, AfterPass1Steps(len))

\* every entry of have[] is a range within 0..n
RangesWithin(have, n) ==
    \A i \in 1..N_LETTERS :
        /\ 0 <= have[i].at_least
        /\ have[i].at_least <= have[i].at_most
        /\ have[i].at_most <= n

\* C27: every entry of have[] satisfies 0 <= at_least <= at_most <= L after
\* the initialisation, after every iteration of pass 1 and of pass 2, and
\* after the sort and the sentinel; and a letter with an Absent clue ends
\* with at_most = at_least = the number of its RightPosition and
\* WrongPosition clues.
C27_RangesStayOrdered ==
    Compiled =>
        /\ \A k \in 0..len : RangesWithin(AfterPass1Steps(k).cv.have, len)
        /\ \A k \in 0..len : RangesWithin(AfterPass2Steps(k).cv.have, len)
        /\ \E tie \in TieOrders :
              cluevec = [AfterPass2Steps(len).cv EXCEPT
                            !.have = place_sentinel(qsort_have(@, tie), len)]
        /\ RangesWithin(cluevec.have, len)
        /\ \A l \in Offsets :
              CluesOnLetter(l, {Absent}) > 0 =>
                  \A h \in {HaveOf(cluevec.have, l)} :
                      /\ h.at_most = h.at_least
                      /\ h.at_least
                             = CluesOnLetter(l, {RightPosition, WrongPosition})

\* a letter with an Absent clue whose exact count is not zero, next to a
\* letter without one whose range is wider than a single count
C27_Witness ==
    /\ Compiled
    /\ \E l, m \in Offsets :
          /\ CluesOnLetter(l, {Absent}) > 0
          /\ HaveOf(cluevec.have, l).at_most > 0
          /\ HaveOf(cluevec.have, l).at_most = HaveOf(cluevec.have, l).at_least
          /\ CluesOnLetter(m, {WrongPosition}) > 0
          /\ HaveOf(cluevec.have, m).at_least < HaveOf(cluevec.have, m).at_most
          /\ HaveOf(cluevec.have, m).at_most < len


\* C28: in a compiled cluevec must_be[i] holds at most one letter and no
\* letter is in both must_be[i] and must_not_be[i]; the target of the compile
\* has the letter of every must_be[i] at position i and no letter of
\* must_not_be[i] there.
C28_MarkersConsistent ==
    Compiled =>
        /\ \A i \in 1..len :
              /\ Cardinality(cluevec.must_be[i]) <= 1
              /\ cluevec.must_be[i] \cap cluevec.must_not_be[i] = {}
              /\ cluevec.must_be[i] \subseteq Offsets
              /\ cluevec.must_not_be[i] \subseteq Offsets
        /\ PositionsOK(_chop_word(target), cluevec)
        /\ is_word_possible_after_cluevec(len, _chop_word(target), cluevec) = 1

\* a position with both markers set and a position with two banned letters,
\* for a target other than the guess
C28_Witness ==
    /\ Compiled
    /\ target # guess
    /\ \E i, j \in 1..len :
          /\ cluevec.must_be[i] # {}
          /\ cluevec.must_not_be[i] # {}
          /\ cluevec.must_be[j] = {}
          /\ Cardinality(cluevec.must_not_be[j]) >= 2


\* the line holds nothing but whitespace (or nothing at all)
Blank(l) == \A i \in 1..Len(l) : isspace(l[i])

\* C29: while the trailing whitespace of a line is trimmed, the byte the loop
\* reads, end[-1], is a byte of line[] (end - 1 >= 0), for empty and
\* whitespace-only lines too, and such a line is not stored.
C29_TrimStaysInLine ==
    [][(epc = "trim" /\ epc' = "fgets") =>
          /\ skip_trailing(line, before, Len(line)) - 1 >= 0
          /\ Blank(line) => (buf' = buf /\ nwords' = nwords)]_vars

====
